---------------------------- MODULE Spec2Model ----------------------------
(***************************************************************************)
(* Model of dxvk's binding layout / pipeline manager code:                 *)
(*   src/src/dxvk/dxvk_pipelayout.h, dxvk_pipelayout.cpp                   *)
(*   src/src/dxvk/dxvk_pipemanager.cpp                                     *)
(*                                                                         *)
(* The module holds several specifications over one set of variables:      *)
(*   SpecInfo    DxvkBindingInfo's pure functions on drawn inputs          *)
(*   SpecPush    DxvkBindingLayout::addPushConstantRange                   *)
(*   SpecLayout  DxvkBindingLayout::addBinding / merge                     *)
(*   SpecBuild   DxvkBindingLayout built by any of its calls; eq and hash   *)
(*   SpecObjs    DxvkBindingLayoutObjects construction and destruction     *)
(*   SpecSlots   DxvkDescriptorSlotMapping                                 *)
(*   Spec        DxvkPipelineManager's get-or-create calls, by threads     *)
(*   SpecLive    Spec with the threads' steps scheduled fairly             *)
(* Each specification leaves the variables of the others untouched.        *)
(***************************************************************************)
EXTENDS Integers, Sequences, FiniteSets, TLC

(***************************************************************************)
(* Vulkan enumerants used by the code.                                     *)
(***************************************************************************)
VK_SHADER_STAGE_VERTEX_BIT == 1
VK_SHADER_STAGE_TESSELLATION_CONTROL_BIT == 2
VK_SHADER_STAGE_TESSELLATION_EVALUATION_BIT == 4
VK_SHADER_STAGE_GEOMETRY_BIT == 8
VK_SHADER_STAGE_FRAGMENT_BIT == 16
VK_SHADER_STAGE_COMPUTE_BIT == 32
VK_SHADER_STAGE_ALL_GRAPHICS == 31

VK_DESCRIPTOR_TYPE_SAMPLED_IMAGE == 2
VK_DESCRIPTOR_TYPE_UNIFORM_BUFFER == 6
VK_DESCRIPTOR_TYPE_STORAGE_BUFFER == 7
VK_DESCRIPTOR_TYPE_UNIFORM_BUFFER_DYNAMIC == 8

VK_ACCESS_SHADER_READ_BIT == 32
VK_ACCESS_SHADER_WRITE_BIT == 64

VK_IMAGE_VIEW_TYPE_2D == 1
VK_IMAGE_VIEW_TYPE_3D == 2

(***************************************************************************)
(* struct DxvkDescriptorSets                                               *)
(***************************************************************************)
CsAll == 0
FsViews == 0
FsBuffers == 1
VsAll == 2
SetCount == 3

(***************************************************************************)
(* Bounds of the model.                                                    *)
(***************************************************************************)
\* resource slots are 0 .. MaxSlot
MaxSlot == 1
\* calls made on the two binding layouts of SpecPush and SpecLayout
MaxLayoutOps == 3
\* addBinding calls that built the layout a DxvkBindingLayoutObjects gets
MaxObjBindings == 2
\* calls made on the two binding layouts of SpecBuild
MaxBuildOps == 3
\* entries a DxvkDescriptorSlotMapping of SpecSlots can hold
MaxSlotDefs == 5
\* MaxNumActiveBindings of the code, scaled down
MaxNumActiveBindings == 2
\* defineSlot calls made on the mapping of SpecDefs
MaxDefCalls == 4
\* bits kept of a hash value (size_t in the code)
HashBits == 16
\* threads calling into the pipeline manager
NumThreads == 2
\* create calls made on the pipeline manager, all threads together
MaxCalls == 2

(***************************************************************************)
(* Bit operations on unsigned masks (operators & and | of the code).       *)
(***************************************************************************)
RECURSIVE BitOr(_, _)
BitOr(x, y) ==
  IF x = 0 THEN y
  ELSE IF y = 0 THEN x
  ELSE (IF x % 2 = 1 \/ y % 2 = 1 THEN 1 ELSE 0) + 2 * BitOr(x \div 2, y \div 2)

RECURSIVE BitAnd(_, _)
BitAnd(x, y) ==
  IF x = 0 \/ y = 0 THEN 0
  ELSE (IF x % 2 = 1 /\ y % 2 = 1 THEN 1 ELSE 0) + 2 * BitAnd(x \div 2, y \div 2)

RECURSIVE BitXor(_, _)
BitXor(x, y) ==
  IF x = 0 THEN y
  ELSE IF y = 0 THEN x
  ELSE (IF (x % 2) # (y % 2) THEN 1 ELSE 0) + 2 * BitXor(x \div 2, y \div 2)

\* bit is a power of two: whether mask x has it set (used to state claims)
HasBit(x, bit) == (x \div bit) % 2 = 1

(***************************************************************************)
(* struct DxvkBindingInfo                                                  *)
(***************************************************************************)
DxvkBindingInfo(type, slot, view, stages, access) ==
  [descriptorType |-> type, resourceBinding |-> slot, viewType |-> view,
   stages |-> stages, access |-> access]

computeSetIndex_FragFirst(b) ==
  IF BitAnd(b.stages, VK_SHADER_STAGE_FRAGMENT_BIT) # 0
    THEN IF b.descriptorType = VK_DESCRIPTOR_TYPE_UNIFORM_BUFFER
            \/ b.descriptorType = VK_DESCRIPTOR_TYPE_STORAGE_BUFFER
         THEN FsBuffers ELSE FsViews
  ELSE IF BitAnd(b.stages, VK_SHADER_STAGE_COMPUTE_BIT) # 0 THEN CsAll
  ELSE VsAll

computeSetIndex(b) ==
  IF BitAnd(b.stages, VK_SHADER_STAGE_COMPUTE_BIT) # 0 THEN CsAll
  ELSE IF BitAnd(b.stages, VK_SHADER_STAGE_FRAGMENT_BIT) # 0
    THEN IF b.descriptorType = VK_DESCRIPTOR_TYPE_UNIFORM_BUFFER
            \/ b.descriptorType = VK_DESCRIPTOR_TYPE_STORAGE_BUFFER
         THEN FsBuffers ELSE FsViews
  ELSE VsAll

canMerge_NoViewCheck(this, binding) ==
  IF BitAnd(this.stages, VK_SHADER_STAGE_FRAGMENT_BIT)
       # BitAnd(binding.stages, VK_SHADER_STAGE_FRAGMENT_BIT)
  THEN FALSE
  ELSE /\ this.descriptorType = binding.descriptorType
       /\ this.resourceBinding = binding.resourceBinding

canMerge(this, binding) ==
  IF BitAnd(this.stages, VK_SHADER_STAGE_FRAGMENT_BIT)
       # BitAnd(binding.stages, VK_SHADER_STAGE_FRAGMENT_BIT)
  THEN FALSE
  ELSE /\ this.descriptorType = binding.descriptorType
       /\ this.resourceBinding = binding.resourceBinding
       /\ this.viewType = binding.viewType

BindingInfo_merge(this, binding) ==
  [this EXCEPT !.stages = BitOr(this.stages, binding.stages),
               !.access = BitOr(this.access, binding.access)]

\* forgets the access mask
BindingInfo_eq_NoAccess(this, other) ==
  /\ this.descriptorType = other.descriptorType
  /\ this.resourceBinding = other.resourceBinding
  /\ this.viewType = other.viewType
  /\ this.stages = other.stages

BindingInfo_eq(this, other) ==
  /\ this.descriptorType = other.descriptorType
  /\ this.resourceBinding = other.resourceBinding
  /\ this.viewType = other.viewType
  /\ this.stages = other.stages
  /\ this.access = other.access

(***************************************************************************)
(* class DxvkBindingLayout: m_bindings (one list per set; set i is tuple   *)
(* element i + 1) and m_pushConst.                                         *)
(***************************************************************************)
VkPushConstantRange(stageFlags, offset, size) ==
  [stageFlags |-> stageFlags, offset |-> offset, size |-> size]

\* DxvkBindingLayout::DxvkBindingLayout()
EmptyLayout ==
  [m_bindings |-> <<<< >>, << >>, << >>>>,
   m_pushConst |-> VkPushConstantRange(0, 0, 0)]

getBindingCount(layout, set) == Len(layout.m_bindings[set + 1])

getBinding(layout, set, idx) == layout.m_bindings[set + 1][idx + 1]

Min(x, y) == IF x <= y THEN x ELSE y

Max(x, y) == IF x >= y THEN x ELSE y

\* the first entry of the set's list the binding can merge with, 0 if none
MergeCandidate(list, binding) ==
  LET hits == {j \in 1..Len(list) : canMerge(list[j], binding)}
  IN  IF hits = {} THEN 0 ELSE CHOOSE j \in hits : \A k \in hits : j <= k

addBinding_AlwaysAppend(layout, binding) ==
  LET set == computeSetIndex(binding)
  IN  [layout EXCEPT !.m_bindings[set + 1] = Append(@, binding)]

\* moves the entry it merged into to the end of its set
addBinding_MergedLast(layout, binding) ==
  LET set == computeSetIndex(binding)
      list == layout.m_bindings[set + 1]
      j == MergeCandidate(list, binding)
  IN  IF j # 0
      THEN [layout EXCEPT !.m_bindings[set + 1] =
              Append(SubSeq(list, 1, j - 1) \o SubSeq(list, j + 1, Len(list)),
                     BindingInfo_merge(list[j], binding))]
      ELSE [layout EXCEPT !.m_bindings[set + 1] = Append(@, binding)]

\* looks for an entry to merge with in every set
addBinding_AnySet(layout, binding) ==
  LET hits == {i \in 1..SetCount : MergeCandidate(layout.m_bindings[i], binding) # 0}
  IN  IF hits # {}
      THEN LET i == CHOOSE i \in hits : \A k \in hits : i <= k
               j == MergeCandidate(layout.m_bindings[i], binding)
           IN  [layout EXCEPT !.m_bindings[i][j] = BindingInfo_merge(@, binding)]
      ELSE [layout EXCEPT !.m_bindings[computeSetIndex(binding) + 1] = Append(@, binding)]

addBinding(layout, binding) ==
  LET set == computeSetIndex(binding)
      list == layout.m_bindings[set + 1]
      j == MergeCandidate(list, binding)
  IN  IF j # 0
      THEN [layout EXCEPT !.m_bindings[set + 1][j] = BindingInfo_merge(@, binding)]
      ELSE [layout EXCEPT !.m_bindings[set + 1] = Append(@, binding)]

\* adds the size of the range to the size held
addPushConstantRange_AddSizes(layout, range) ==
  [layout EXCEPT !.m_pushConst =
     VkPushConstantRange(BitOr(layout.m_pushConst.stageFlags, range.stageFlags),
                         Min(layout.m_pushConst.offset, range.offset),
                         layout.m_pushConst.size + range.size)]

addPushConstantRange_Overwrite(layout, range) ==
  [layout EXCEPT !.m_pushConst = range]

\* The fields are uint32_t. The ranges drawn below keep offset + size far
\* under 2^32, and Max(oldEnd, newEnd) >= oldEnd >= the old offset >= the
\* new offset, so no sum or difference wraps.
addPushConstantRange(layout, range) ==
  LET oldEnd == layout.m_pushConst.offset + layout.m_pushConst.size
      newEnd == range.offset + range.size
      offset == Min(layout.m_pushConst.offset, range.offset)
  IN  [layout EXCEPT !.m_pushConst =
        VkPushConstantRange(
          BitOr(layout.m_pushConst.stageFlags, range.stageFlags),
          offset,
          Max(oldEnd, newEnd) - offset)]

RECURSIVE AddBindings(_, _)
AddBindings(layout, list) ==
  IF list = << >> THEN layout
  ELSE AddBindings(addBinding(layout, Head(list)), Tail(list))

\* DxvkBindingLayout::merge
Layout_merge(this, layout) ==
  addPushConstantRange(
    AddBindings(this, layout.m_bindings[1] \o layout.m_bindings[2]
                        \o layout.m_bindings[3]),
    layout.m_pushConst)

\* compares this layout's push-constant size with the other's offset
Layout_eq_PushTypo(this, other) ==
  /\ \A i \in 0..(SetCount - 1) :
        getBindingCount(this, i) = getBindingCount(other, i)
  /\ \A i \in 0..(SetCount - 1) : \A j \in 0..(getBindingCount(this, i) - 1) :
        BindingInfo_eq(getBinding(this, i, j), getBinding(other, i, j))
  /\ ~ \/ this.m_pushConst.stageFlags # other.m_pushConst.stageFlags
       \/ this.m_pushConst.offset # other.m_pushConst.offset
       \/ this.m_pushConst.size # other.m_pushConst.offset

\* compares the binding counts and the push-constant range, not the entries
Layout_eq_SizesOnly(this, other) ==
  /\ \A i \in 0..(SetCount - 1) :
        getBindingCount(this, i) = getBindingCount(other, i)
  /\ ~ \/ this.m_pushConst.stageFlags # other.m_pushConst.stageFlags
       \/ this.m_pushConst.offset # other.m_pushConst.offset
       \/ this.m_pushConst.size # other.m_pushConst.size

Layout_eq(this, other) ==
  /\ \A i \in 0..(SetCount - 1) :
        getBindingCount(this, i) = getBindingCount(other, i)
  /\ \A i \in 0..(SetCount - 1) : \A j \in 0..(getBindingCount(this, i) - 1) :
        BindingInfo_eq(getBinding(this, i, j), getBinding(other, i, j))
  /\ ~ \/ this.m_pushConst.stageFlags # other.m_pushConst.stageFlags
       \/ this.m_pushConst.offset # other.m_pushConst.offset
       \/ this.m_pushConst.size # other.m_pushConst.size

(***************************************************************************)
(* hash(): DxvkHashState starts at 0 and add() mixes a value in. Hash      *)
(* values are kept to their low HashBits bits; HashGolden is the low       *)
(* HashBits bits of 0x9e3779b9 (0x9e37 = 40503, 0x79b9 = 31161).           *)
(***************************************************************************)
HashGolden == ((40503 % (2^(HashBits - 16))) * 65536 + 31161) % (2^HashBits)

\* DxvkHashState::add:
\*   m_value ^= hash + 0x9e3779b9 + (m_value << 6) + (m_value >> 2)
HashAdd(m_value, hash) ==
  BitXor(m_value,
         (hash + HashGolden + m_value * 64 + (m_value \div 4)) % (2^HashBits))

RECURSIVE HashAddAll(_, _)
HashAddAll(m_value, values) ==
  IF values = << >> THEN m_value
  ELSE HashAddAll(HashAdd(m_value, Head(values)), Tail(values))

\* DxvkBindingInfo::hash
BindingInfo_hash(this) ==
  HashAddAll(0, <<this.descriptorType, this.resourceBinding, this.viewType,
                  this.stages, this.access>>)

\* DxvkBindingLayout::hash
Layout_hash(this) ==
  LET all == this.m_bindings[1] \o this.m_bindings[2] \o this.m_bindings[3]
  IN  HashAddAll(
        HashAddAll(0, [n \in 1..Len(all) |-> BindingInfo_hash(all[n])]),
        <<this.m_pushConst.stageFlags, this.m_pushConst.offset,
          this.m_pushConst.size>>)

(***************************************************************************)
(* class DxvkBindingLayoutObjects.  A native object is a handle            *)
(* [kind, id, set]: id names the construction attempt that created it.     *)
(* The outcomes of the native create calls are an input: failAt is the     *)
(* ordinal of the create call that fails (1 = the first call made), 0 if   *)
(* none fails.                                                             *)
(***************************************************************************)
VK_NULL_HANDLE == [kind |-> "null", id |-> 0, set |-> 0]

VkHandle(kind, id, set) == [kind |-> kind, id |-> id, set |-> set]

\* the members after the initializers of dxvk_pipelayout.h:279-289, and the
\* constructor's locals: constId, the create calls made, the handles created
\* in order, and whether it has thrown
BLO_Begin(id, layout) ==
  [id |-> id,
   m_layout |-> layout,
   m_pipelineLayout |-> VK_NULL_HANDLE,
   m_setMask |-> 0,
   m_setLayouts |-> <<VK_NULL_HANDLE, VK_NULL_HANDLE, VK_NULL_HANDLE>>,
   m_setTemplates |-> <<VK_NULL_HANDLE, VK_NULL_HANDLE, VK_NULL_HANDLE>>,
   m_bindingOffsets |-> <<0, 0, 0>>,
   m_mapping |-> << >>,
   pushConstantRangeCount |-> 0,
   constId |-> 0,
   calls |-> 0,
   created |-> << >>,
   thrown |-> FALSE]

\* stores the running global index as the binding number
BLO_MapSet_GlobalBinding(mapping, layout, i, constId) ==
  LET list == layout.m_bindings[i + 1]
      slots == {list[j].resourceBinding : j \in 1..Len(list)}
      first(s) == CHOOSE j \in 1..Len(list) :
                    /\ list[j].resourceBinding = s
                    /\ \A k \in 1..(j - 1) : list[k].resourceBinding # s
  IN  [s \in (DOMAIN mapping) \cup slots |->
         IF s \in DOMAIN mapping THEN mapping[s]
         ELSE [set |-> i, binding |-> constId + first(s) - 1,
               constId |-> constId + first(s) - 1]]

\* m_mapping.insert({ binding.resourceBinding, mapping }) for the bindings
\* of set i: insert keeps the entry of a key that is already present
BLO_MapSet(mapping, layout, i, constId) ==
  LET list == layout.m_bindings[i + 1]
      slots == {list[j].resourceBinding : j \in 1..Len(list)}
      first(s) == CHOOSE j \in 1..Len(list) :
                    /\ list[j].resourceBinding = s
                    /\ \A k \in 1..(j - 1) : list[k].resourceBinding # s
  IN  [s \in (DOMAIN mapping) \cup slots |->
         IF s \in DOMAIN mapping THEN mapping[s]
         ELSE [set |-> i, binding |-> first(s) - 1,
               constId |-> constId + first(s) - 1]]

\* marks the set in m_setMask whether or not it has bindings
BLO_Set_MaskAlways(st, i, failAt) ==
  IF st.thrown THEN st
  ELSE
    LET bindingCount == getBindingCount(st.m_layout, i)
        s1 == [st EXCEPT !.m_bindingOffsets[i + 1] = st.constId,
                         !.m_mapping = BLO_MapSet(@, st.m_layout, i, st.constId),
                         !.constId = @ + bindingCount,
                         !.calls = @ + 1]
        setLayout == VkHandle("setLayout", st.id, i)
        template == VkHandle("template", st.id, i)
    IN  IF s1.calls = failAt THEN [s1 EXCEPT !.thrown = TRUE]
        ELSE
          LET s2 == [s1 EXCEPT !.m_setLayouts[i + 1] = setLayout,
                               !.created = Append(@, setLayout),
                               !.m_setMask = BitOr(@, 2^i)]
          IN  IF bindingCount = 0 THEN s2
              ELSE IF s2.calls + 1 = failAt
                THEN [s2 EXCEPT !.calls = @ + 1, !.thrown = TRUE]
              ELSE [s2 EXCEPT !.calls = @ + 1,
                              !.m_setTemplates[i + 1] = template,
                              !.created = Append(@, template)]

\* one iteration of the loop over the sets (dxvk_pipelayout.cpp:159-207)
BLO_Set(st, i, failAt) ==
  IF st.thrown THEN st
  ELSE
    LET bindingCount == getBindingCount(st.m_layout, i)
        s1 == [st EXCEPT !.m_bindingOffsets[i + 1] = st.constId,
                         !.m_mapping = BLO_MapSet(@, st.m_layout, i, st.constId),
                         !.constId = @ + bindingCount,
                         !.calls = @ + 1]
        setLayout == VkHandle("setLayout", st.id, i)
        template == VkHandle("template", st.id, i)
    IN  IF s1.calls = failAt THEN [s1 EXCEPT !.thrown = TRUE]
        ELSE
          LET s2 == [s1 EXCEPT !.m_setLayouts[i + 1] = setLayout,
                               !.created = Append(@, setLayout)]
          IN  IF bindingCount = 0 THEN s2
              ELSE IF s2.calls + 1 = failAt
                THEN [s2 EXCEPT !.calls = @ + 1, !.thrown = TRUE]
              ELSE [s2 EXCEPT !.calls = @ + 1,
                              !.m_setTemplates[i + 1] = template,
                              !.created = Append(@, template),
                              !.m_setMask = BitOr(@, 2^i)]

\* the pipeline layout (dxvk_pipelayout.cpp:209-221)
BLO_PipelineLayout(st, failAt) ==
  IF st.thrown THEN st
  ELSE
    LET pushConst == st.m_layout.m_pushConst
        s1 == [st EXCEPT !.calls = @ + 1,
                         !.pushConstantRangeCount =
                           IF pushConst.stageFlags # 0 /\ pushConst.size # 0
                           THEN 1 ELSE 0]
        pipelineLayout == VkHandle("pipelineLayout", st.id, SetCount)
    IN  IF s1.calls = failAt THEN [s1 EXCEPT !.thrown = TRUE]
        ELSE [s1 EXCEPT !.m_pipelineLayout = pipelineLayout,
                        !.created = Append(@, pipelineLayout)]

\* DxvkBindingLayoutObjects::DxvkBindingLayoutObjects. The constructor has
\* no handler and the members are raw handles: when it throws, no destructor
\* of this class runs and the handles in created stay alive.
BLO_Construct(id, layout, failAt) ==
  BLO_PipelineLayout(
    BLO_Set(BLO_Set(BLO_Set(BLO_Begin(id, layout), 0, failAt), 1, failAt), 2, failAt),
    failAt)

\* the outcomes of a construction the threads of Spec meet: no call fails,
\* the first call fails (nothing was created), the last call fails (all the
\* set layouts and templates were created)
MgrFailPoints(layout) ==
  {0, 1, SetCount
         + Cardinality({i \in 0..(SetCount - 1) : getBindingCount(layout, i) > 0}) + 1}

\* the native create calls the constructor makes when none fails
BLO_NumCalls(layout) ==
  SetCount + Cardinality({i \in 0..(SetCount - 1) : getBindingCount(layout, i) > 0}) + 1

\* destroys the pipeline layout and the set layouts, not the templates
BLO_Destroy_NoTemplates(obj) ==
  SelectSeq(
    <<obj.m_pipelineLayout,
      obj.m_setLayouts[1], obj.m_setLayouts[2], obj.m_setLayouts[3]>>,
    LAMBDA h : h # VK_NULL_HANDLE)

\* DxvkBindingLayoutObjects::~DxvkBindingLayoutObjects: the handles passed to
\* the destroy calls, in call order; destroying VK_NULL_HANDLE does nothing
BLO_Destroy(obj) ==
  SelectSeq(
    <<obj.m_pipelineLayout,
      obj.m_setLayouts[1], obj.m_setTemplates[1],
      obj.m_setLayouts[2], obj.m_setTemplates[2],
      obj.m_setLayouts[3], obj.m_setTemplates[3]>>,
    LAMBDA h : h # VK_NULL_HANDLE)

SeqToSet(seq) == {seq[n] : n \in 1..Len(seq)}

\* the indices j at which the constructor writes bindingInfos[j] and
\* templateInfos[j] for set i; both arrays have MaxNumActiveBindings elements
BLO_ScratchWrites(layout, i) == 0..(getBindingCount(layout, i) - 1)

\* some write of the constructor is past the end of the arrays
BLO_ScratchOverflow(layout) ==
  \E i \in 0..(SetCount - 1) :
    \E j \in BLO_ScratchWrites(layout, i) : j >= MaxNumActiveBindings

\* DxvkBindingLayoutObjects::lookupBinding: the mapping of index, or
\* std::nullopt (found = FALSE)
lookupBinding(this, index) ==
  IF index \in DOMAIN this.m_mapping
  THEN [found |-> TRUE, set |-> this.m_mapping[index].set,
        binding |-> this.m_mapping[index].binding,
        constId |-> this.m_mapping[index].constId]
  ELSE [found |-> FALSE, set |-> 0, binding |-> 0, constId |-> 0]

(***************************************************************************)
(* class DxvkDescriptorSlotMapping: m_descriptorSlots is a vector of        *)
(* DxvkDescriptorSlot, binding ids are its 0-based indices.                *)
(***************************************************************************)
DxvkResourceSlot(slot, type, view, access) ==
  [slot |-> slot, type |-> type, view |-> view, access |-> access]

DxvkDescriptorSlot(slot, type, view, stages, access) ==
  [slot |-> slot, type |-> type, view |-> view, stages |-> stages, access |-> access]

\* 0xFFFFFFFF as a 32-bit value
InvalidBinding == -1

getBindingId(slots, slot) ==
  LET hits == {i \in 1..Len(slots) : slots[i].slot = slot}
  IN  IF hits = {} THEN InvalidBinding
      ELSE (CHOOSE i \in hits : \A k \in hits : i <= k) - 1

defineSlot_NoSearch(slots, stage, desc) ==
  Append(slots, DxvkDescriptorSlot(desc.slot, desc.type, desc.view, stage, desc.access))

defineSlot(slots, stage, desc) ==
  LET bindingId == getBindingId(slots, desc.slot)
  IN  IF bindingId # InvalidBinding
      THEN [slots EXCEPT ![bindingId + 1].stages = BitOr(@, stage),
                         ![bindingId + 1].access = BitOr(@, desc.access)]
      ELSE Append(slots, DxvkDescriptorSlot(desc.slot, desc.type, desc.view,
                                            stage, desc.access))

definePushConstRange(range, stage, offset, size) ==
  [range EXCEPT !.stageFlags = BitOr(@, stage),
                !.size = Max(@, offset + size)]

countDescriptors(slots, type) ==
  Cardinality({i \in 1..Len(slots) : slots[i].type = type})

replaceDescriptors_AnyType(slots, oldType, newType) ==
  [i \in 1..Len(slots) |-> [slots[i] EXCEPT !.type = newType]]

replaceDescriptors(slots, oldType, newType) ==
  [i \in 1..Len(slots) |->
     IF slots[i].type = oldType THEN [slots[i] EXCEPT !.type = newType]
     ELSE slots[i]]

makeDescriptorsDynamic_Below(slots, uniformBuffers, storageBuffers) ==
  IF countDescriptors(slots, VK_DESCRIPTOR_TYPE_UNIFORM_BUFFER) < uniformBuffers
  THEN replaceDescriptors(slots, VK_DESCRIPTOR_TYPE_UNIFORM_BUFFER,
                          VK_DESCRIPTOR_TYPE_UNIFORM_BUFFER_DYNAMIC)
  ELSE slots

makeDescriptorsDynamic(slots, uniformBuffers, storageBuffers) ==
  IF countDescriptors(slots, VK_DESCRIPTOR_TYPE_UNIFORM_BUFFER) <= uniformBuffers
  THEN replaceDescriptors(slots, VK_DESCRIPTOR_TYPE_UNIFORM_BUFFER,
                          VK_DESCRIPTOR_TYPE_UNIFORM_BUFFER_DYNAMIC)
  ELSE slots

(***************************************************************************)
(* class DxvkPipelineLayout (the legacy layout built from a slot mapping). *)
(* st.calls counts the native create calls made so far; call number        *)
(* failAt fails (0: none does). st.destroyed lists the handles the          *)
(* constructor passed to a destroy call; destroying VK_NULL_HANDLE does     *)
(* nothing and is left out.                                                 *)
(***************************************************************************)
NonNull(handles) == SelectSeq(handles, LAMBDA h : h # VK_NULL_HANDLE)

\* the member initializers: m_pushConstRange(slotMapping.pushConstRange()),
\* m_bindingSlots(slotMapping.bindingCount()), the handles VK_NULL_HANDLE
PL_Begin(id, slots, range) ==
  [id |-> id,
   m_pushConstRange |-> range,
   m_descriptorSetLayout |-> VK_NULL_HANDLE,
   m_pipelineLayout |-> VK_NULL_HANDLE,
   m_descriptorTemplate |-> VK_NULL_HANDLE,
   m_bindingSlots |-> [i \in 1..Len(slots) |-> DxvkDescriptorSlot(0, 0, 0, 0, 0)],
   m_dynamicSlots |-> << >>,
   bindingCount |-> Len(slots),
   setLayoutCount |-> 0,
   pSetLayouts |-> VK_NULL_HANDLE,
   pushConstantRangeCount |-> 0,
   calls |-> 0,
   created |-> << >>,
   destroyed |-> << >>,
   thrown |-> FALSE]

\* the bindingCount check and the two loops over the bindings
PL_Bindings(st, slots) ==
  IF st.bindingCount > MaxNumActiveBindings THEN [st EXCEPT !.thrown = TRUE]
  ELSE [st EXCEPT !.m_bindingSlots = slots,
                  !.m_dynamicSlots =
                    LET RECURSIVE dyn(_)
                        dyn(i) == IF i > Len(slots) THEN << >>
                                  ELSE (IF slots[i].type =
                                             VK_DESCRIPTOR_TYPE_UNIFORM_BUFFER_DYNAMIC
                                        THEN <<i - 1>> ELSE << >>) \o dyn(i + 1)
                    IN  dyn(1)]

\* creates the descriptor set layout whether or not there are bindings
PL_SetLayout_Always(st, failAt) ==
  IF st.thrown THEN st
  ELSE
    LET s1 == [st EXCEPT !.calls = @ + 1]
        setLayout == VkHandle("setLayout", st.id, 0)
    IN  IF s1.calls = failAt THEN [s1 EXCEPT !.thrown = TRUE]
        ELSE [s1 EXCEPT !.m_descriptorSetLayout = setLayout,
                        !.created = Append(@, setLayout)]

\* if (bindingCount > 0) vkCreateDescriptorSetLayout
PL_SetLayout(st, failAt) ==
  IF st.thrown \/ st.bindingCount = 0 THEN st
  ELSE
    LET s1 == [st EXCEPT !.calls = @ + 1]
        setLayout == VkHandle("setLayout", st.id, 0)
    IN  IF s1.calls = failAt THEN [s1 EXCEPT !.thrown = TRUE]
        ELSE [s1 EXCEPT !.m_descriptorSetLayout = setLayout,
                        !.created = Append(@, setLayout)]

\* vkCreatePipelineLayout; on failure the set layout is destroyed
PL_PipelineLayout(st, failAt) ==
  IF st.thrown THEN st
  ELSE
    LET s1 == [st EXCEPT !.calls = @ + 1,
                         !.setLayoutCount = IF st.bindingCount > 0 THEN 1 ELSE 0,
                         !.pSetLayouts = st.m_descriptorSetLayout,
                         !.pushConstantRangeCount =
                           IF st.m_pushConstRange.size # 0 THEN 1 ELSE 0]
        pipelineLayout == VkHandle("pipelineLayout", st.id, 0)
    IN  IF s1.calls = failAt
        THEN [s1 EXCEPT !.destroyed = @ \o NonNull(<<st.m_descriptorSetLayout>>),
                        !.thrown = TRUE]
        ELSE [s1 EXCEPT !.m_pipelineLayout = pipelineLayout,
                        !.created = Append(@, pipelineLayout)]

\* on failure destroys the set layout and leaves the pipeline layout
PL_Template_KeepPipelineLayout(st, failAt) ==
  IF st.thrown \/ st.bindingCount = 0 THEN st
  ELSE
    LET s1 == [st EXCEPT !.calls = @ + 1]
        template == VkHandle("template", st.id, 0)
    IN  IF s1.calls = failAt
        THEN [s1 EXCEPT !.destroyed = @ \o NonNull(<<st.m_descriptorSetLayout>>),
                        !.thrown = TRUE]
        ELSE [s1 EXCEPT !.m_descriptorTemplate = template,
                        !.created = Append(@, template)]

\* if (bindingCount > 0) vkCreateDescriptorUpdateTemplate; on failure the
\* set layout and the pipeline layout are destroyed
PL_Template(st, failAt) ==
  IF st.thrown \/ st.bindingCount = 0 THEN st
  ELSE
    LET s1 == [st EXCEPT !.calls = @ + 1]
        template == VkHandle("template", st.id, 0)
    IN  IF s1.calls = failAt
        THEN [s1 EXCEPT !.destroyed = @ \o NonNull(<<st.m_descriptorSetLayout,
                                                      st.m_pipelineLayout>>),
                        !.thrown = TRUE]
        ELSE [s1 EXCEPT !.m_descriptorTemplate = template,
                        !.created = Append(@, template)]

\* DxvkPipelineLayout::DxvkPipelineLayout
PL_Construct(id, slots, range, failAt) ==
  PL_Template(
    PL_PipelineLayout(
      PL_SetLayout(PL_Bindings(PL_Begin(id, slots, range), slots), failAt),
      failAt),
    failAt)

\* the native create calls the legacy constructor makes when none fails
PL_NumCalls(slots) ==
  IF Len(slots) > MaxNumActiveBindings THEN 0
  ELSE IF Len(slots) = 0 THEN 1 ELSE 3

\* DxvkPipelineLayout::~DxvkPipelineLayout: the handles passed to the
\* destroy calls, in order
PL_Destroy(st) ==
  NonNull(<<st.m_descriptorTemplate, st.m_pipelineLayout, st.m_descriptorSetLayout>>)

(***************************************************************************)
(* class DxvkDescriptorState: the dirty masks.                             *)
(***************************************************************************)
\* x & ~y
BitClear(x, y) == x - BitAnd(x, y)

dirtyBuffers(st, stages) ==
  [st EXCEPT !.m_dirtyBuffers = BitOr(@, stages)]

dirtyViews(st, stages) ==
  [st EXCEPT !.m_dirtyViews = BitOr(@, stages)]

dirtyStages(st, stages) ==
  [st EXCEPT !.m_dirtyBuffers = BitOr(@, stages),
             !.m_dirtyViews = BitOr(@, stages)]

clearStages(st, stages) ==
  [st EXCEPT !.m_dirtyBuffers = BitClear(@, stages),
             !.m_dirtyViews = BitClear(@, stages)]

hasDirtyGraphicsSets(st) ==
  BitAnd(BitOr(st.m_dirtyBuffers, st.m_dirtyViews), VK_SHADER_STAGE_ALL_GRAPHICS) # 0

hasDirtyComputeSets(st) ==
  BitAnd(BitOr(st.m_dirtyBuffers, st.m_dirtyViews), VK_SHADER_STAGE_COMPUTE_BIT) # 0

\* marks only the FsViews set for dirty fragment views
getDirtyGraphicsSets_ViewsOnly(st) ==
  LET r1 == IF BitAnd(st.m_dirtyBuffers, VK_SHADER_STAGE_FRAGMENT_BIT) # 0
            THEN 2^FsBuffers ELSE 0
      r2 == IF BitAnd(st.m_dirtyViews, VK_SHADER_STAGE_FRAGMENT_BIT) # 0
            THEN BitOr(r1, 2^FsViews) ELSE r1
  IN  IF BitAnd(BitOr(st.m_dirtyBuffers, st.m_dirtyViews),
                BitClear(VK_SHADER_STAGE_ALL_GRAPHICS, VK_SHADER_STAGE_FRAGMENT_BIT)) # 0
      THEN BitOr(r2, 2^VsAll) ELSE r2

getDirtyGraphicsSets(st) ==
  LET r1 == IF BitAnd(st.m_dirtyBuffers, VK_SHADER_STAGE_FRAGMENT_BIT) # 0
            THEN 2^FsBuffers ELSE 0
      r2 == IF BitAnd(st.m_dirtyViews, VK_SHADER_STAGE_FRAGMENT_BIT) # 0
            THEN BitOr(r1, BitOr(2^FsViews, 2^FsBuffers)) ELSE r1
  IN  IF BitAnd(BitOr(st.m_dirtyBuffers, st.m_dirtyViews),
                BitClear(VK_SHADER_STAGE_ALL_GRAPHICS, VK_SHADER_STAGE_FRAGMENT_BIT)) # 0
      THEN BitOr(r2, 2^VsAll) ELSE r2

getDirtyComputeSets(st) ==
  IF BitAnd(BitOr(st.m_dirtyBuffers, st.m_dirtyViews), VK_SHADER_STAGE_COMPUTE_BIT) # 0
  THEN 2^CsAll ELSE 0

(***************************************************************************)
(* State.                                                                  *)
(***************************************************************************)
VARIABLES
  \* SpecInfo: a DxvkBindingInfo (this), the argument of its methods, the
  \* value of this before the last call, the last call and what it returned
  infoThis, infoArg, infoOld, infoOp, retSetIndex, retCanMerge,
  \* SpecPush, SpecLayout: two DxvkBindingLayout objects, the ranges passed
  \* to addPushConstantRange on each (in call order), the ranges that went
  \* into each directly or through a merged layout, and the calls made
  layouts, pushLog, pushFlat, opCount,
  \* SpecBuild: the calls made on each of the two layouts, in order
  buildLog,
  \* the device: the native objects alive, and the create and destroy calls
  \* that succeeded, in order
  vkLive, vkLog,
  \* SpecObjs: a BindingLayout, the DxvkBindingLayoutObjects built from it
  \* and where that object is in its life
  objLayout, obj, objState,
  \* the last lookupBinding call on obj: its argument and what it returned
  objLookup,
  \* SpecSlots: a DxvkDescriptorSlotMapping (m_descriptorSlots and
  \* m_pushConstRange), its m_descriptorSlots before the last call, and the
  \* last call with its arguments
  m_descriptorSlots, m_pushConstRange, slotsOld, slotOp,
  \* SpecDefs: the defineSlot calls made on the mapping, in order
  slotLog,
  \* SpecLegacy: the DxvkPipelineLayout built from a slot mapping and where
  \* that object is in its life
  pl, plState,
  \* SpecDirty: a DxvkDescriptorState (m_dirtyBuffers and m_dirtyViews) and
  \* the argument of the last call if that was clearStages
  descState,
  \* Spec: DxvkPipelineManager. Its members m_mutex (the thread holding it),
  \* m_computePipelines, m_graphicsPipelines and m_pipelineLayouts; per
  \* calling thread its place in the call (pc), the call's arguments, its
  \* locals (mergedLayout, layout) and what it returned; the next address
  \* handed to a constructed object; and, for stating claims, the calls made
  \* by each thread, the pipeline objects ever constructed (built), the
  \* references ever returned (handedOut) and whether a call started while
  \* another thread was inside a call for the same shaders (raced)
  m_mutex, m_computePipelines, m_graphicsPipelines, m_pipelineLayouts,
  pc, call, local, ret, nextId, callsMade, built, handedOut, raced

infoVars == <<infoThis, infoArg, infoOld, infoOp, retSetIndex, retCanMerge>>

layoutVars == <<layouts, pushLog, pushFlat, opCount>>

devVars == <<vkLive, vkLog>>

objVars == <<objLayout, obj, objState, objLookup>>

buildVars == <<buildLog>>

slotVars == <<m_descriptorSlots, m_pushConstRange, slotsOld, slotOp>>

defVars == <<slotLog>>

legacyVars == <<pl, plState>>

dirtyVars == <<descState>>

\* the state of the specifications written last
lateVars == <<defVars, legacyVars, dirtyVars>>

cacheVars == <<m_computePipelines, m_graphicsPipelines, m_pipelineLayouts>>

mgrVars == <<m_mutex, cacheVars, pc, call, local, ret, nextId, callsMade, built,
             handedOut, raced>>

vars == <<infoVars, layoutVars, buildVars, devVars, objVars, slotVars, mgrVars, lateVars>>

\* what the actions of each specification leave alone
othersInfo == <<layoutVars, buildVars, devVars, objVars, slotVars, mgrVars, lateVars>>

othersLayout == <<infoVars, buildVars, devVars, objVars, slotVars, mgrVars, lateVars>>

othersBuild == <<infoVars, pushLog, pushFlat, devVars, objVars, slotVars, mgrVars, lateVars>>

othersObj == <<infoVars, layoutVars, buildVars, slotVars, mgrVars, lateVars>>

othersSlot == <<infoVars, layoutVars, buildVars, devVars, objVars, mgrVars, lateVars>>

othersMgr == <<infoVars, layoutVars, buildVars, objVars, slotVars, lateVars>>

othersDef == <<infoVars, layoutVars, buildVars, devVars, objVars, m_pushConstRange,
               slotsOld, slotOp, mgrVars, legacyVars, dirtyVars>>

othersLegacy == <<infoVars, layoutVars, buildVars, objVars, slotVars, mgrVars,
                  defVars, dirtyVars>>

othersDirty == <<infoVars, layoutVars, buildVars, devVars, objVars, slotVars, mgrVars,
                 defVars, legacyVars>>

(***************************************************************************)
(* SpecInfo: the methods of DxvkBindingInfo applied to drawn values.       *)
(***************************************************************************)
InfoTypes == {VK_DESCRIPTOR_TYPE_SAMPLED_IMAGE, VK_DESCRIPTOR_TYPE_UNIFORM_BUFFER,
              VK_DESCRIPTOR_TYPE_STORAGE_BUFFER}

InfoViews == {VK_IMAGE_VIEW_TYPE_2D, VK_IMAGE_VIEW_TYPE_3D}

InfoStages == {VK_SHADER_STAGE_VERTEX_BIT, VK_SHADER_STAGE_GEOMETRY_BIT,
               VK_SHADER_STAGE_FRAGMENT_BIT, VK_SHADER_STAGE_COMPUTE_BIT,
               VK_SHADER_STAGE_VERTEX_BIT + VK_SHADER_STAGE_FRAGMENT_BIT,
               VK_SHADER_STAGE_FRAGMENT_BIT + VK_SHADER_STAGE_COMPUTE_BIT}

InfoAccess == {VK_ACCESS_SHADER_READ_BIT, VK_ACCESS_SHADER_WRITE_BIT}

BindingInfos ==
  {DxvkBindingInfo(t, s, v, st, ac) :
     t \in InfoTypes, s \in 0..MaxSlot, v \in InfoViews, st \in InfoStages,
     ac \in InfoAccess}

InfoIdle ==
  /\ infoThis = DxvkBindingInfo(0, 0, 0, 0, 0)
  /\ infoArg = DxvkBindingInfo(0, 0, 0, 0, 0)
  /\ infoOld = DxvkBindingInfo(0, 0, 0, 0, 0)
  /\ infoOp = "none"
  /\ retSetIndex = 0
  /\ retCanMerge = FALSE

LayoutIds == {"a", "b"}

LayoutIdle ==
  /\ layouts = [l \in LayoutIds |-> EmptyLayout]
  /\ pushLog = [l \in LayoutIds |-> << >>]
  /\ pushFlat = [l \in LayoutIds |-> << >>]
  /\ opCount = 0

DevIdle ==
  /\ vkLive = {}
  /\ vkLog = << >>

BuildIdle == buildLog = [l \in LayoutIds |-> << >>]

NoLookup ==
  [called |-> FALSE, index |-> 0, found |-> FALSE, set |-> 0, binding |-> 0,
   constId |-> 0]

ObjIdle ==
  /\ objLayout = EmptyLayout
  /\ obj = BLO_Begin(0, EmptyLayout)
  /\ objState = "none"
  /\ objLookup = NoLookup

\* DxvkDescriptorSlotMapping::DxvkDescriptorSlotMapping(), no call made
SlotIdle ==
  /\ m_descriptorSlots = << >>
  /\ m_pushConstRange = VkPushConstantRange(0, 0, 0)
  /\ slotsOld = << >>
  /\ slotOp = [op |-> "none"]

DefIdle == slotLog = << >>

LegacyIdle ==
  /\ pl = PL_Begin(0, << >>, VkPushConstantRange(0, 0, 0))
  /\ plState = "none"

\* the member initializers m_dirtyBuffers = 0, m_dirtyViews = 0
DirtyIdle == descState = [m_dirtyBuffers |-> 0, m_dirtyViews |-> 0, lastClear |-> 0]

LateIdle == DefIdle /\ LegacyIdle /\ DirtyIdle

Threads == 1..NumThreads

NoThread == 0

NoShader == "null"

Null == 0

NoCall == [kind |-> "none", shaders |-> << >>]

\* DxvkPipelineManager after its constructor, no call made
MgrIdle ==
  /\ m_mutex = NoThread
  /\ m_computePipelines = << >>
  /\ m_graphicsPipelines = << >>
  /\ m_pipelineLayouts = {}
  /\ pc = [t \in Threads |-> "idle"]
  /\ call = [t \in Threads |-> NoCall]
  /\ local = [t \in Threads |-> [mergedLayout |-> EmptyLayout, layout |-> Null]]
  /\ ret = [t \in Threads |-> Null]
  /\ nextId = 1
  /\ callsMade = [t \in Threads |-> 0]
  /\ built = {}
  /\ handedOut = {}
  /\ raced = [t \in Threads |-> FALSE]

InfoInit ==
  /\ LayoutIdle
  /\ BuildIdle
  /\ SlotIdle
  /\ LateIdle
  /\ DevIdle
  /\ ObjIdle
  /\ MgrIdle
  /\ infoThis \in BindingInfos
  /\ infoArg \in BindingInfos
  /\ infoOld = infoThis
  /\ infoOp = "none"
  /\ retSetIndex = 0
  /\ retCanMerge = FALSE

CallComputeSetIndex ==
  /\ infoOp = "none"
  /\ infoOp' = "computeSetIndex"
  /\ retSetIndex' = computeSetIndex(infoThis)
  /\ UNCHANGED <<infoThis, infoArg, infoOld, retCanMerge, othersInfo>>

CallCanMerge ==
  /\ infoOp = "none"
  /\ infoOp' = "canMerge"
  /\ retCanMerge' = canMerge(infoThis, infoArg)
  /\ UNCHANGED <<infoThis, infoArg, infoOld, retSetIndex, othersInfo>>

CallMerge ==
  /\ infoOp = "none"
  /\ infoOp' = "merge"
  /\ infoOld' = infoThis
  /\ infoThis' = BindingInfo_merge(infoThis, infoArg)
  /\ UNCHANGED <<infoArg, retSetIndex, retCanMerge, othersInfo>>

InfoNext == CallComputeSetIndex \/ CallCanMerge \/ CallMerge

SpecInfo == InfoInit /\ [][InfoNext]_vars

(***************************************************************************)
(* C7: computeSetIndex depends only on the stage mask and the descriptor   *)
(* kind: compute bit -> set 0; else fragment bit and uniform or storage    *)
(* buffer -> set 1; else fragment bit -> set 0; else -> set 2.             *)
(***************************************************************************)
C7_Expected(stages, type) ==
  IF HasBit(stages, VK_SHADER_STAGE_COMPUTE_BIT) THEN 0
  ELSE IF HasBit(stages, VK_SHADER_STAGE_FRAGMENT_BIT)
          /\ type \in {VK_DESCRIPTOR_TYPE_UNIFORM_BUFFER,
                       VK_DESCRIPTOR_TYPE_STORAGE_BUFFER} THEN 1
  ELSE IF HasBit(stages, VK_SHADER_STAGE_FRAGMENT_BIT) THEN 0
  ELSE 2

C7_ComputeSetIndex ==
  infoOp = "computeSetIndex" =>
    retSetIndex = C7_Expected(infoThis.stages, infoThis.descriptorType)

\* a fragment-stage buffer binding that also has the compute bit went to set 0
C7_Witness ==
  /\ infoOp = "computeSetIndex"
  /\ HasBit(infoThis.stages, VK_SHADER_STAGE_COMPUTE_BIT)
  /\ HasBit(infoThis.stages, VK_SHADER_STAGE_FRAGMENT_BIT)
  /\ infoThis.descriptorType = VK_DESCRIPTOR_TYPE_STORAGE_BUFFER
  /\ retSetIndex = 0

(***************************************************************************)
(* C8: canMerge(a, b) is true iff a and b agree on descriptor kind,        *)
(* resource slot, view shape and presence of the fragment-stage bit;       *)
(* merge(a, b) sets a's stage and access masks to the bitwise OR of both   *)
(* and leaves descriptor kind, slot and view shape unchanged.              *)
(***************************************************************************)
C8_Bits == {2^k : k \in 0..7}

C8_CanMergeAndMerge ==
  /\ infoOp = "canMerge" =>
       (retCanMerge <=>
          /\ infoThis.descriptorType = infoArg.descriptorType
          /\ infoThis.resourceBinding = infoArg.resourceBinding
          /\ infoThis.viewType = infoArg.viewType
          /\ HasBit(infoThis.stages, VK_SHADER_STAGE_FRAGMENT_BIT)
               <=> HasBit(infoArg.stages, VK_SHADER_STAGE_FRAGMENT_BIT))
  /\ infoOp = "merge" =>
       /\ \A bit \in C8_Bits :
            /\ HasBit(infoThis.stages, bit)
                 <=> (HasBit(infoOld.stages, bit) \/ HasBit(infoArg.stages, bit))
            /\ HasBit(infoThis.access, bit)
                 <=> (HasBit(infoOld.access, bit) \/ HasBit(infoArg.access, bit))
       /\ infoThis.stages < 2^8 /\ infoThis.access < 2^8
       /\ infoThis.descriptorType = infoOld.descriptorType
       /\ infoThis.resourceBinding = infoOld.resourceBinding
       /\ infoThis.viewType = infoOld.viewType

\* a merge that changed both masks
C8_Witness ==
  /\ infoOp = "merge"
  /\ infoThis.stages # infoOld.stages
  /\ infoThis.stages # infoArg.stages
  /\ infoThis.access = VK_ACCESS_SHADER_READ_BIT + VK_ACCESS_SHADER_WRITE_BIT

(***************************************************************************)
(* SpecPush and SpecLayout: calls on two DxvkBindingLayout objects.        *)
(***************************************************************************)
PushRanges ==
  {VkPushConstantRange(VK_SHADER_STAGE_VERTEX_BIT, 0, 16),
   VkPushConstantRange(VK_SHADER_STAGE_FRAGMENT_BIT, 16, 16),
   VkPushConstantRange(VK_SHADER_STAGE_VERTEX_BIT, 16, 8),
   VkPushConstantRange(VK_SHADER_STAGE_FRAGMENT_BIT, 0, 8),
   VkPushConstantRange(VK_SHADER_STAGE_GEOMETRY_BIT, 8, 16)}

LayoutBindings ==
  {DxvkBindingInfo(t, s, VK_IMAGE_VIEW_TYPE_2D, st, VK_ACCESS_SHADER_READ_BIT) :
     t \in {VK_DESCRIPTOR_TYPE_SAMPLED_IMAGE, VK_DESCRIPTOR_TYPE_UNIFORM_BUFFER},
     s \in 0..MaxSlot,
     st \in {VK_SHADER_STAGE_VERTEX_BIT, VK_SHADER_STAGE_GEOMETRY_BIT,
             VK_SHADER_STAGE_FRAGMENT_BIT, VK_SHADER_STAGE_COMPUTE_BIT}}
  \cup {DxvkBindingInfo(VK_DESCRIPTOR_TYPE_SAMPLED_IMAGE, 0, VK_IMAGE_VIEW_TYPE_3D,
                        VK_SHADER_STAGE_FRAGMENT_BIT + VK_SHADER_STAGE_COMPUTE_BIT,
                        VK_ACCESS_SHADER_WRITE_BIT)}

LayoutInit ==
  /\ InfoIdle
  /\ LayoutIdle
  /\ BuildIdle
  /\ SlotIdle
  /\ LateIdle
  /\ DevIdle
  /\ ObjIdle
  /\ MgrIdle

\* layouts[l].addBinding(binding)
AddBinding(l, binding) ==
  /\ opCount < MaxLayoutOps
  /\ layouts' = [layouts EXCEPT ![l] = addBinding(@, binding)]
  /\ opCount' = opCount + 1
  /\ UNCHANGED <<pushLog, pushFlat, othersLayout>>

\* layouts[l].addPushConstantRange(range)
AddPushConstantRange(l, range) ==
  /\ opCount < MaxLayoutOps
  /\ layouts' = [layouts EXCEPT ![l] = addPushConstantRange(@, range)]
  /\ pushLog' = [pushLog EXCEPT ![l] = Append(@, range)]
  /\ pushFlat' = [pushFlat EXCEPT ![l] = Append(@, range)]
  /\ opCount' = opCount + 1
  /\ UNCHANGED othersLayout

\* layouts[l].merge(layouts[o]), which ends in
\* addPushConstantRange(layouts[o].m_pushConst)
MergeLayouts(l, o) ==
  /\ l # o
  /\ opCount < MaxLayoutOps
  /\ layouts' = [layouts EXCEPT ![l] = Layout_merge(@, layouts[o])]
  /\ pushLog' = [pushLog EXCEPT ![l] = Append(@, layouts[o].m_pushConst)]
  /\ pushFlat' = [pushFlat EXCEPT ![l] = @ \o pushFlat[o]]
  /\ opCount' = opCount + 1
  /\ UNCHANGED othersLayout

PushNext ==
  \/ \E l \in LayoutIds, r \in PushRanges : AddPushConstantRange(l, r)
  \/ \E l \in LayoutIds, o \in LayoutIds : MergeLayouts(l, o)

SpecPush == LayoutInit /\ [][PushNext]_vars

LayoutNext ==
  \/ \E l \in LayoutIds, b \in LayoutBindings : AddBinding(l, b)
  \/ \E l \in LayoutIds, o \in LayoutIds : MergeLayouts(l, o)

SpecLayout == LayoutInit /\ [][LayoutNext]_vars

(***************************************************************************)
(* C6: after any sequence of addBinding and merge calls, no set of a       *)
(* BindingLayout contains two entries that agree on (descriptor kind,      *)
(* resource slot, view shape) and on presence of the fragment-stage bit.   *)
(***************************************************************************)
C6_SameKey(x, y) ==
  /\ x.descriptorType = y.descriptorType
  /\ x.resourceBinding = y.resourceBinding
  /\ x.viewType = y.viewType
  /\ HasBit(x.stages, VK_SHADER_STAGE_FRAGMENT_BIT)
       <=> HasBit(y.stages, VK_SHADER_STAGE_FRAGMENT_BIT)

C6_NoMergeableDuplicates ==
  \A l \in LayoutIds : \A i \in 1..SetCount :
    \A j, k \in 1..Len(layouts[l].m_bindings[i]) :
      j # k => ~ C6_SameKey(layouts[l].m_bindings[i][j], layouts[l].m_bindings[i][k])

\* l.merge(o) found l's vertex-stage declaration of a resource and o's
\* geometry-stage declaration of it, and left one entry with both stages
C6_Witness ==
  \E l \in LayoutIds : \E o \in LayoutIds \ {l} :
    /\ pushLog[l] # << >>
    /\ Len(layouts[l].m_bindings[VsAll + 1]) = 1
    /\ Len(layouts[o].m_bindings[VsAll + 1]) = 1
    /\ layouts[l].m_bindings[VsAll + 1][1].stages
         = VK_SHADER_STAGE_VERTEX_BIT + VK_SHADER_STAGE_GEOMETRY_BIT
    /\ layouts[o].m_bindings[VsAll + 1][1].stages = VK_SHADER_STAGE_GEOMETRY_BIT
    /\ C6_SameKey(layouts[l].m_bindings[VsAll + 1][1],
                  layouts[o].m_bindings[VsAll + 1][1])

(***************************************************************************)
(* C9: after any non-empty sequence of addPushConstantRange calls on a     *)
(* fresh BindingLayout, the accumulated range has offset = the minimum     *)
(* offset of the ranges added, offset + size = the maximum end of the      *)
(* ranges added, and stage mask = the OR of their stage masks.             *)
(***************************************************************************)
C9_Bits == {2^k : k \in 0..5}

C9_PushConstantUnion ==
  \A l \in LayoutIds :
    LET log == pushLog[l]
        acc == layouts[l].m_pushConst
    IN  log # << >> =>
          /\ \E n \in 1..Len(log) : acc.offset = log[n].offset
          /\ \A n \in 1..Len(log) : acc.offset <= log[n].offset
          /\ \E n \in 1..Len(log) : acc.offset + acc.size = log[n].offset + log[n].size
          /\ \A n \in 1..Len(log) : acc.offset + acc.size >= log[n].offset + log[n].size
          /\ \A bit \in C9_Bits :
               HasBit(acc.stageFlags, bit)
                 <=> \E n \in 1..Len(log) : HasBit(log[n].stageFlags, bit)

(***************************************************************************)
(* C10: addPushConstantRange is order-independent: ranges applied to the   *)
(* same starting layout in any order or grouping yield the same            *)
(* accumulated (offset, size, stage mask); {offset=0,size=16} and          *)
(* {offset=16,size=16} in either order yield {offset=0,size=32}.           *)
(***************************************************************************)
RECURSIVE C10_Fold(_, _)
C10_Fold(layout, ranges) ==
  IF ranges = << >> THEN layout
  ELSE C10_Fold(addPushConstantRange(layout, Head(ranges)), Tail(ranges))

C10_Orders(ranges) ==
  {[n \in 1..Len(ranges) |-> ranges[p[n]]] : p \in Permutations(1..Len(ranges))}

C10_OrderIndependent ==
  \A l \in LayoutIds :
    \* two ranges on the layout as it stands, in both orders
    /\ \A r1, r2 \in PushRanges :
         C10_Fold(layouts[l], <<r1, r2>>).m_pushConst
           = C10_Fold(layouts[l], <<r2, r1>>).m_pushConst
    \* the ranges that went into the layout, one by one or grouped in a merged
    \* layout, applied to a fresh layout one by one in any order
    /\ \A order \in C10_Orders(pushFlat[l]) :
         C10_Fold(EmptyLayout, order).m_pushConst = layouts[l].m_pushConst
    /\ (/\ Len(pushFlat[l]) = 2
        /\ {[offset |-> pushFlat[l][n].offset, size |-> pushFlat[l][n].size] : n \in 1..2}
             = {[offset |-> 0, size |-> 16], [offset |-> 16, size |-> 16]})
       => /\ layouts[l].m_pushConst.offset = 0
          /\ layouts[l].m_pushConst.size = 32

\* {16,16} and then {0,16} were added to layout b, and reached layout a
\* grouped, through a.merge(b)
C10_Witness ==
  /\ Len(pushLog["b"]) = 2
  /\ pushLog["b"][1].offset = 16 /\ pushLog["b"][1].size = 16
  /\ pushLog["b"][2].offset = 0 /\ pushLog["b"][2].size = 16
  /\ Len(pushLog["a"]) = 1
  /\ pushFlat["a"] = pushLog["b"]
  /\ layouts["a"].m_pushConst.offset = 0
  /\ layouts["a"].m_pushConst.size = 32

(***************************************************************************)
(* SpecBuild: two DxvkBindingLayout objects, each built by its own         *)
(* sequence of addBinding, addPushConstantRange and merge calls; merge     *)
(* takes the binding layout of a shader.                                   *)
(***************************************************************************)
BuildBindings ==
  {DxvkBindingInfo(VK_DESCRIPTOR_TYPE_UNIFORM_BUFFER, 0, VK_IMAGE_VIEW_TYPE_2D,
                   VK_SHADER_STAGE_VERTEX_BIT, VK_ACCESS_SHADER_READ_BIT),
   DxvkBindingInfo(VK_DESCRIPTOR_TYPE_UNIFORM_BUFFER, 0, VK_IMAGE_VIEW_TYPE_2D,
                   VK_SHADER_STAGE_VERTEX_BIT, VK_ACCESS_SHADER_WRITE_BIT),
   DxvkBindingInfo(VK_DESCRIPTOR_TYPE_UNIFORM_BUFFER, 0, VK_IMAGE_VIEW_TYPE_2D,
                   VK_SHADER_STAGE_GEOMETRY_BIT, VK_ACCESS_SHADER_READ_BIT),
   DxvkBindingInfo(VK_DESCRIPTOR_TYPE_UNIFORM_BUFFER, 1, VK_IMAGE_VIEW_TYPE_2D,
                   VK_SHADER_STAGE_VERTEX_BIT, VK_ACCESS_SHADER_READ_BIT),
   DxvkBindingInfo(VK_DESCRIPTOR_TYPE_SAMPLED_IMAGE, 0, VK_IMAGE_VIEW_TYPE_2D,
                   VK_SHADER_STAGE_FRAGMENT_BIT, VK_ACCESS_SHADER_READ_BIT)}

BuildRanges ==
  {VkPushConstantRange(VK_SHADER_STAGE_VERTEX_BIT, 0, 16),
   VkPushConstantRange(VK_SHADER_STAGE_FRAGMENT_BIT, 16, 16)}

\* shader->getBindings() of three shaders: one uniform buffer; the buffers of
\* slots 1 and 0, in this order; an image and push constants
BuildSources ==
  {AddBindings(EmptyLayout,
     <<DxvkBindingInfo(VK_DESCRIPTOR_TYPE_UNIFORM_BUFFER, 0, VK_IMAGE_VIEW_TYPE_2D,
                       VK_SHADER_STAGE_VERTEX_BIT, VK_ACCESS_SHADER_READ_BIT)>>),
   AddBindings(EmptyLayout,
     <<DxvkBindingInfo(VK_DESCRIPTOR_TYPE_UNIFORM_BUFFER, 1, VK_IMAGE_VIEW_TYPE_2D,
                       VK_SHADER_STAGE_VERTEX_BIT, VK_ACCESS_SHADER_READ_BIT),
       DxvkBindingInfo(VK_DESCRIPTOR_TYPE_UNIFORM_BUFFER, 0, VK_IMAGE_VIEW_TYPE_2D,
                       VK_SHADER_STAGE_VERTEX_BIT, VK_ACCESS_SHADER_READ_BIT)>>),
   addPushConstantRange(
     AddBindings(EmptyLayout,
       <<DxvkBindingInfo(VK_DESCRIPTOR_TYPE_SAMPLED_IMAGE, 0, VK_IMAGE_VIEW_TYPE_2D,
                         VK_SHADER_STAGE_FRAGMENT_BIT, VK_ACCESS_SHADER_READ_BIT)>>),
     VkPushConstantRange(VK_SHADER_STAGE_FRAGMENT_BIT, 16, 16))}

\* layouts[l].addBinding(binding)
BuildAddBinding(l, binding) ==
  /\ opCount < MaxBuildOps
  /\ layouts' = [layouts EXCEPT ![l] = addBinding(@, binding)]
  /\ buildLog' = [buildLog EXCEPT ![l] =
                    Append(@, [op |-> "addBinding", arg |-> binding])]
  /\ opCount' = opCount + 1
  /\ UNCHANGED othersBuild

\* layouts[l].addPushConstantRange(range)
BuildAddPushConstantRange(l, range) ==
  /\ opCount < MaxBuildOps
  /\ layouts' = [layouts EXCEPT ![l] = addPushConstantRange(@, range)]
  /\ buildLog' = [buildLog EXCEPT ![l] =
                    Append(@, [op |-> "addPushConstantRange", arg |-> range])]
  /\ opCount' = opCount + 1
  /\ UNCHANGED othersBuild

\* layouts[l].merge(source)
BuildMerge(l, source) ==
  /\ opCount < MaxBuildOps
  /\ layouts' = [layouts EXCEPT ![l] = Layout_merge(@, source)]
  /\ buildLog' = [buildLog EXCEPT ![l] = Append(@, [op |-> "merge", arg |-> source])]
  /\ opCount' = opCount + 1
  /\ UNCHANGED othersBuild

BuildNext ==
  \/ \E l \in LayoutIds, b \in BuildBindings : BuildAddBinding(l, b)
  \/ \E l \in LayoutIds, r \in BuildRanges : BuildAddPushConstantRange(l, r)
  \/ \E l \in LayoutIds, source \in BuildSources : BuildMerge(l, source)

SpecBuild == LayoutInit /\ [][BuildNext]_vars

(***************************************************************************)
(* C11: two BindingLayouts built from the same inputs by the same sequence *)
(* of merge / addBinding / addPushConstantRange calls are equal under eq   *)
(* and have equal hash values; and for all layouts A and B, eq(A, B)       *)
(* implies hash(A) = hash(B).                                              *)
(***************************************************************************)
C11_EqHashConsistent ==
  /\ \A l \in LayoutIds : \A o \in LayoutIds \ {l} :
       /\ buildLog[l] = buildLog[o] => Layout_eq(layouts[l], layouts[o])
       /\ Layout_eq(layouts[l], layouts[o]) =>
            Layout_hash(layouts[l]) = Layout_hash(layouts[o])
  /\ \A l \in LayoutIds : \A source \in BuildSources :
       Layout_eq(layouts[l], source) => Layout_hash(layouts[l]) = Layout_hash(source)

\* one layout got a binding through addBinding and then a push-constant
\* range, the other got both through one merge: equal, with one hash
C11_Witness ==
  /\ Len(buildLog["a"]) = 2 /\ Len(buildLog["b"]) = 1
  /\ buildLog["a"][1].op = "addBinding"
  /\ buildLog["a"][2].op = "addPushConstantRange"
  /\ buildLog["b"][1].op = "merge"
  /\ Layout_eq(layouts["a"], layouts["b"])
  /\ Layout_hash(layouts["a"]) = Layout_hash(layouts["b"])
  /\ Layout_hash(layouts["a"]) # Layout_hash(EmptyLayout)

(***************************************************************************)
(* C12 as claimed: two BindingLayouts that contain the same bindings in    *)
(* each set and the same push-constant range are equal under eq,           *)
(* independently of the order in which their bindings or per-stage layouts *)
(* were added.                                                             *)
(***************************************************************************)
C12_SameBindings(x, y) ==
  /\ \A i \in 1..SetCount :
       /\ Len(x.m_bindings[i]) = Len(y.m_bindings[i])
       /\ SeqToSet(x.m_bindings[i]) = SeqToSet(y.m_bindings[i])
  /\ x.m_pushConst = y.m_pushConst

C12_EqIgnoresOrder ==
  \A l \in LayoutIds : \A o \in LayoutIds \ {l} :
    C12_SameBindings(layouts[l], layouts[o]) => Layout_eq(layouts[l], layouts[o])

(***************************************************************************)
(* C12 amended: two BindingLayouts are equal under eq iff every set holds  *)
(* the same bindings at the same indices in both and the push-constant     *)
(* ranges are the same, whichever calls (addBinding, merge of per-stage    *)
(* layouts) built them; layouts that hold the bindings of a set in         *)
(* different orders are not equal under eq.                                *)
(***************************************************************************)
C12_EqIsOrdered ==
  \A l \in LayoutIds : \A o \in LayoutIds \ {l} :
    /\ Layout_eq(layouts[l], layouts[o]) <=>
         /\ layouts[l].m_bindings = layouts[o].m_bindings
         /\ layouts[l].m_pushConst = layouts[o].m_pushConst
    /\ (/\ C12_SameBindings(layouts[l], layouts[o])
        /\ layouts[l].m_bindings # layouts[o].m_bindings)
         => ~ Layout_eq(layouts[l], layouts[o])

\* a got the buffers of slots 1 and 0 by two addBinding calls, b by merging a
\* shader's layout that lists them in this order: equal under eq
C12_Witness ==
  /\ Len(buildLog["a"]) = 2 /\ Len(buildLog["b"]) = 1
  /\ buildLog["a"][1].op = "addBinding" /\ buildLog["a"][2].op = "addBinding"
  /\ buildLog["b"][1].op = "merge"
  /\ getBindingCount(layouts["a"], VsAll) = 2
  /\ Layout_eq(layouts["a"], layouts["b"])

(***************************************************************************)
(* SpecObjs: one DxvkBindingLayoutObjects is constructed from a layout     *)
(* built by addBinding and addPushConstantRange, and destroyed.            *)
(***************************************************************************)
ObjBindings ==
  {DxvkBindingInfo(VK_DESCRIPTOR_TYPE_UNIFORM_BUFFER, s, VK_IMAGE_VIEW_TYPE_2D,
                   st, VK_ACCESS_SHADER_READ_BIT) :
     s \in 0..MaxSlot,
     st \in {VK_SHADER_STAGE_VERTEX_BIT, VK_SHADER_STAGE_FRAGMENT_BIT}}
  \cup {DxvkBindingInfo(VK_DESCRIPTOR_TYPE_SAMPLED_IMAGE, s, VK_IMAGE_VIEW_TYPE_2D,
                        st, VK_ACCESS_SHADER_READ_BIT) :
          s \in 0..MaxSlot,
          st \in {VK_SHADER_STAGE_VERTEX_BIT, VK_SHADER_STAGE_FRAGMENT_BIT}}

ObjBindingLists ==
  UNION {[1..n -> ObjBindings] : n \in 0..MaxObjBindings}

ObjLayouts ==
  {AddBindings(EmptyLayout, list) : list \in ObjBindingLists}
  \cup {addPushConstantRange(AddBindings(EmptyLayout, list),
          VkPushConstantRange(VK_SHADER_STAGE_VERTEX_BIT, 0, 16)) :
        list \in ObjBindingLists}

ObjInit ==
  /\ InfoIdle
  /\ LayoutIdle
  /\ BuildIdle
  /\ SlotIdle
  /\ LateIdle
  /\ DevIdle
  /\ MgrIdle
  /\ objLayout \in ObjLayouts
  /\ obj = BLO_Begin(0, EmptyLayout)
  /\ objState = "none"
  /\ objLookup = NoLookup

\* new DxvkBindingLayoutObjects(device, objLayout)
ObjConstruct(failAt) ==
  /\ objState = "none"
  /\ LET st == BLO_Construct(1, objLayout, failAt)
     IN  /\ obj' = st
         /\ objState' = IF st.thrown THEN "thrown" ELSE "constructed"
         /\ vkLive' = vkLive \cup SeqToSet(st.created)
         /\ vkLog' = vkLog \o [n \in 1..Len(st.created) |->
                                 [op |-> "create", handle |-> st.created[n]]]
  /\ UNCHANGED <<objLayout, objLookup, othersObj>>

\* delete obj
ObjDestroy ==
  /\ objState = "constructed"
  /\ LET destroyed == BLO_Destroy(obj)
     IN  /\ vkLive' = vkLive \ SeqToSet(destroyed)
         /\ vkLog' = vkLog \o [n \in 1..Len(destroyed) |->
                                 [op |-> "destroy", handle |-> destroyed[n]]]
  /\ objState' = "destroyed"
  /\ UNCHANGED <<objLayout, obj, objLookup, othersObj>>

\* obj->lookupBinding(index)
ObjLookup(index) ==
  /\ objState = "constructed"
  /\ LET r == lookupBinding(obj, index)
     IN  objLookup' = [called |-> TRUE, index |-> index, found |-> r.found,
                       set |-> r.set, binding |-> r.binding, constId |-> r.constId]
  /\ UNCHANGED <<objLayout, obj, objState, devVars, othersObj>>

ObjNext ==
  \/ \E failAt \in 0..BLO_NumCalls(objLayout) : ObjConstruct(failAt)
  \/ \E index \in 0..(MaxSlot + 1) : ObjLookup(index)
  \/ ObjDestroy

SpecObjs == ObjInit /\ [][ObjNext]_vars

(***************************************************************************)
(* C5: if a native creation call fails during BindingLayoutObjects         *)
(* construction, every native object already created by that construction  *)
(* attempt has been destroyed when the failure propagates to the caller.   *)
(***************************************************************************)
C5_NoLeakOnFailure ==
  objState = "thrown" => \A h \in vkLive : h.id # obj.id

(***************************************************************************)
(* C13: for a constructed BindingLayoutObjects and any slot number s,      *)
(* lookupBinding(s) returns 'not found' iff no binding of the layout has   *)
(* resource slot s; otherwise it returns a (set, binding) pair such that   *)
(* the layout's binding at that set and index has resource slot s.         *)
(* lookupBinding changes no state.                                         *)
(***************************************************************************)
C13_SlotUsed(layout, s) ==
  \E i \in 0..(SetCount - 1) : \E j \in 0..(getBindingCount(layout, i) - 1) :
    getBinding(layout, i, j).resourceBinding = s

C13_Result ==
  objLookup.called =>
    /\ ~ objLookup.found <=> ~ C13_SlotUsed(obj.m_layout, objLookup.index)
    /\ objLookup.found =>
         /\ objLookup.set \in 0..(SetCount - 1)
         /\ objLookup.binding \in 0..(getBindingCount(obj.m_layout, objLookup.set) - 1)
         /\ getBinding(obj.m_layout, objLookup.set, objLookup.binding).resourceBinding
              = objLookup.index

C13_Step ==
  objLookup' # objLookup =>
    UNCHANGED <<objLayout, obj, objState, vkLive, vkLog>>

C13_LookupBinding == []C13_Result /\ [][C13_Step]_vars

\* a slot the layout does not use has been looked up and was not found; the
\* layout uses slot 1 for the second binding of the vertex set, where
\* lookupBinding finds it
C13_Witness ==
  /\ objLookup.called /\ ~ objLookup.found
  /\ getBindingCount(obj.m_layout, VsAll) = 2
  /\ lookupBinding(obj, 1).found
  /\ lookupBinding(obj, 1).set = VsAll
  /\ lookupBinding(obj, 1).binding = 1
  /\ objState = "constructed"

(***************************************************************************)
(* C14: after BindingLayoutObjects construction, for every binding of the  *)
(* layout at index j of set i, the slot table holds an entry for that      *)
(* binding: looking up the binding's resource slot yields set = i,         *)
(* binding = j and constId = the number of bindings in earlier sets plus j.*)
(***************************************************************************)
C14_EarlierBindings(layout, i) ==
  LET RECURSIVE upTo(_)
      upTo(k) == IF k = 0 THEN 0 ELSE getBindingCount(layout, k - 1) + upTo(k - 1)
  IN  upTo(i)

C14_EveryBindingMapped ==
  objState = "constructed" =>
    \A i \in 0..(SetCount - 1) : \A j \in 0..(getBindingCount(obj.m_layout, i) - 1) :
      LET r == lookupBinding(obj, getBinding(obj.m_layout, i, j).resourceBinding)
      IN  /\ r.found
          /\ r.set = i
          /\ r.binding = j
          /\ r.constId = C14_EarlierBindings(obj.m_layout, i) + j

(***************************************************************************)
(* C15: after successful BindingLayoutObjects construction, a              *)
(* descriptor-set layout exists for each of the 3 sets (including empty    *)
(* ones), and for each set i: bit i of the set mask is set iff set i has   *)
(* at least one binding iff a descriptor-update template was created for   *)
(* set i.                                                                  *)
(***************************************************************************)
C15_Created(kind, i) ==
  \E n \in 1..Len(vkLog) :
    /\ vkLog[n].op = "create"
    /\ vkLog[n].handle = VkHandle(kind, obj.id, i)

C15_SetMask ==
  objState = "constructed" =>
    /\ obj.m_setMask < 2^SetCount
    /\ \A i \in 0..(SetCount - 1) :
         /\ C15_Created("setLayout", i)
         /\ obj.m_setLayouts[i + 1] = VkHandle("setLayout", obj.id, i)
         /\ obj.m_setLayouts[i + 1] \in vkLive
         /\ HasBit(obj.m_setMask, 2^i) <=> getBindingCount(obj.m_layout, i) > 0
         /\ getBindingCount(obj.m_layout, i) > 0 <=> C15_Created("template", i)
         /\ C15_Created("template", i) <=>
              obj.m_setTemplates[i + 1] = VkHandle("template", obj.id, i)
         /\ ~ C15_Created("template", i) <=> obj.m_setTemplates[i + 1] = VK_NULL_HANDLE

\* sets 0 and 2 have bindings and set 1 has none: mask 5
C15_Witness ==
  /\ objState = "constructed"
  /\ getBindingCount(obj.m_layout, 0) > 0
  /\ getBindingCount(obj.m_layout, 1) = 0
  /\ getBindingCount(obj.m_layout, 2) > 0
  /\ obj.m_setMask = 5
  /\ obj.m_setTemplates[2] = VK_NULL_HANDLE
  /\ obj.m_setLayouts[2] \in vkLive

(***************************************************************************)
(* C16 as claimed: destroying a successfully constructed                   *)
(* BindingLayoutObjects destroys every native handle its constructor       *)
(* created exactly once; the pipeline layout is destroyed first, and the   *)
(* teardown order is the reverse of the creation order.                    *)
(***************************************************************************)
C16_Handles(op) ==
  LET calls == SelectSeq(vkLog, LAMBDA e : e.op = op /\ e.handle.id = obj.id)
  IN  [n \in 1..Len(calls) |-> calls[n].handle]

C16_Reverse(seq) == [n \in 1..Len(seq) |-> seq[Len(seq) + 1 - n]]

C16_ExactlyOnce ==
  /\ \A h \in SeqToSet(C16_Handles("create")) :
       Cardinality({n \in 1..Len(C16_Handles("destroy")) :
                      C16_Handles("destroy")[n] = h}) = 1
  /\ SeqToSet(C16_Handles("destroy")) \subseteq SeqToSet(C16_Handles("create"))
  /\ \A h \in vkLive : h.id # obj.id

SlotInit ==
  InfoIdle /\ LayoutIdle /\ BuildIdle /\ DevIdle /\ ObjIdle /\ SlotIdle /\ MgrIdle
  /\ LateIdle

SlotTypes == {VK_DESCRIPTOR_TYPE_UNIFORM_BUFFER, VK_DESCRIPTOR_TYPE_STORAGE_BUFFER}

SlotStages == {VK_SHADER_STAGE_VERTEX_BIT, VK_SHADER_STAGE_FRAGMENT_BIT}

\* the slot numbers a call can name: the ones defined so far and one new
\* one; new slot numbers are handed out downwards, so that a slot number
\* differs from the binding id it gets
SlotNumbers(slots) ==
  {slots[i].slot : i \in 1..Len(slots)} \cup
  (IF Len(slots) < MaxSlotDefs THEN {MaxSlotDefs - Len(slots)} ELSE {})

\* the limits passed to makeDescriptorsDynamic
SlotLimits == {MaxSlotDefs - 1, MaxSlotDefs}

DefineSlot(stage, desc) ==
  /\ slotOp.op # "dynamic"
  /\ m_descriptorSlots' = defineSlot(m_descriptorSlots, stage, desc)
  /\ UNCHANGED <<m_pushConstRange, slotsOld, slotOp, othersSlot>>

DefinePushConstRange(stage, offset, size) ==
  /\ slotOp.op # "dynamic"
  /\ m_pushConstRange.size < offset + size
  /\ m_pushConstRange' = definePushConstRange(m_pushConstRange, stage, offset, size)
  /\ UNCHANGED <<m_descriptorSlots, slotsOld, slotOp, othersSlot>>

MakeDescriptorsDynamic(uniformBuffers, storageBuffers) ==
  /\ slotOp.op # "dynamic"
  /\ slotsOld' = m_descriptorSlots
  /\ m_descriptorSlots' = makeDescriptorsDynamic(m_descriptorSlots, uniformBuffers,
                                                 storageBuffers)
  /\ slotOp' = [op |-> "dynamic", uniformBuffers |-> uniformBuffers,
                storageBuffers |-> storageBuffers]
  /\ UNCHANGED <<m_pushConstRange, othersSlot>>

SlotNext ==
  \/ \E stage \in SlotStages, type \in SlotTypes :
       \E slot \in SlotNumbers(m_descriptorSlots) :
         DefineSlot(stage, DxvkResourceSlot(slot, type, VK_IMAGE_VIEW_TYPE_2D,
                                            VK_ACCESS_SHADER_READ_BIT))
  \/ DefinePushConstRange(VK_SHADER_STAGE_FRAGMENT_BIT, 0, 16)
  \/ \E uniformBuffers \in SlotLimits, storageBuffers \in {0, 1} :
       MakeDescriptorsDynamic(uniformBuffers, storageBuffers)

SpecSlots == SlotInit /\ [][SlotNext]_vars

(***************************************************************************)
(* C20: makeDescriptorsDynamic(maxUniform, maxStorage) on a slot mapping   *)
(* with n uniform-buffer entries rewrites all n of them to the dynamic     *)
(* uniform-buffer kind when n <= maxUniform and rewrites none of them when *)
(* n > maxUniform.                                                         *)
(***************************************************************************)
C20_UniformEntries(slots) ==
  {i \in 1..Len(slots) : slots[i].type = VK_DESCRIPTOR_TYPE_UNIFORM_BUFFER}

C20_Rewritten ==
  {i \in C20_UniformEntries(slotsOld) :
     m_descriptorSlots[i].type = VK_DESCRIPTOR_TYPE_UNIFORM_BUFFER_DYNAMIC}

C20_Threshold ==
  slotOp.op = "dynamic" =>
    /\ Len(m_descriptorSlots) = Len(slotsOld)
    /\ IF Cardinality(C20_UniformEntries(slotsOld)) <= slotOp.uniformBuffers
       THEN C20_Rewritten = C20_UniformEntries(slotsOld)
       ELSE /\ C20_Rewritten = {}
            /\ C20_UniformEntries(m_descriptorSlots) = C20_UniformEntries(slotsOld)

\* both sides of the threshold at one limit: all entries of a mapping with
\* exactly as many uniform buffers as the limit were rewritten
C20_Witness ==
  /\ slotOp.op = "dynamic"
  /\ slotOp.uniformBuffers = MaxSlotDefs - 1
  /\ Cardinality(C20_UniformEntries(slotsOld)) = slotOp.uniformBuffers
  /\ C20_Rewritten = C20_UniformEntries(slotsOld)
  /\ Len(slotsOld) = MaxSlotDefs

(***************************************************************************)
(* C21: makeDescriptorsDynamic never changes a storage-buffer entry (or    *)
(* any entry that is not a static uniform buffer) for any values of the    *)
(* two limits, and it leaves every entry's slot, view, stage mask and      *)
(* access mask, the entry order, the entry count and the push-constant     *)
(* range unchanged.                                                        *)
(***************************************************************************)
C21_SameButType(old, new) ==
  /\ new.slot = old.slot
  /\ new.view = old.view
  /\ new.stages = old.stages
  /\ new.access = old.access

C21_EntriesKept ==
  slotOp.op = "dynamic" =>
    /\ Len(m_descriptorSlots) = Len(slotsOld)
    /\ \A i \in 1..Len(slotsOld) :
         /\ C21_SameButType(slotsOld[i], m_descriptorSlots[i])
         /\ slotsOld[i].type # VK_DESCRIPTOR_TYPE_UNIFORM_BUFFER
              => m_descriptorSlots[i] = slotsOld[i]

\* a makeDescriptorsDynamic call leaves the push-constant range alone
C21_Step ==
  (slotOp'.op = "dynamic" /\ slotOp.op # "dynamic")
    => m_pushConstRange' = m_pushConstRange

DefInit ==
  InfoIdle /\ LayoutIdle /\ BuildIdle /\ DevIdle /\ ObjIdle /\ SlotIdle /\ MgrIdle
  /\ LateIdle

\* what a shader declares for a slot: a uniform buffer it reads or a storage
\* buffer it writes
DefDescs ==
  {DxvkResourceSlot(slot, VK_DESCRIPTOR_TYPE_UNIFORM_BUFFER, VK_IMAGE_VIEW_TYPE_2D,
                    VK_ACCESS_SHADER_READ_BIT) : slot \in 0..MaxSlot}
  \cup
  {DxvkResourceSlot(slot, VK_DESCRIPTOR_TYPE_STORAGE_BUFFER, VK_IMAGE_VIEW_TYPE_3D,
                    VK_ACCESS_SHADER_WRITE_BIT) : slot \in 0..MaxSlot}

LogDefineSlot(stage, desc) ==
  /\ Len(slotLog) < MaxDefCalls
  /\ m_descriptorSlots' = defineSlot(m_descriptorSlots, stage, desc)
  /\ slotLog' = Append(slotLog, [stage |-> stage, desc |-> desc])
  /\ UNCHANGED othersDef

DefNext == \E stage \in SlotStages, desc \in DefDescs : LogDefineSlot(stage, desc)

SpecDefs == DefInit /\ [][DefNext]_vars

(***************************************************************************)
(* C25: after any sequence of defineSlot calls on a                        *)
(* DxvkDescriptorSlotMapping, no two entries have the same slot number;    *)
(* the entry count equals the number of distinct slot numbers defined;     *)
(* entries appear in order of first definition; each entry's stage and     *)
(* access masks are the OR over all definitions of that slot, while its    *)
(* type and view are those of the first definition; and getBindingId(slot) *)
(* returns the index of the entry for that slot, or InvalidBinding if the  *)
(* slot was never defined.                                                 *)
(***************************************************************************)
C25_Slots == {slotLog[n].desc.slot : n \in 1..Len(slotLog)}

\* the first call that defined slot s
C25_First(s) ==
  CHOOSE n \in 1..Len(slotLog) :
    /\ slotLog[n].desc.slot = s
    /\ \A k \in 1..(n - 1) : slotLog[k].desc.slot # s

RECURSIVE C25_OrStages(_, _)
C25_OrStages(n, s) ==
  IF n = 0 THEN 0
  ELSE BitOr(C25_OrStages(n - 1, s),
             IF slotLog[n].desc.slot = s THEN slotLog[n].stage ELSE 0)

RECURSIVE C25_OrAccess(_, _)
C25_OrAccess(n, s) ==
  IF n = 0 THEN 0
  ELSE BitOr(C25_OrAccess(n - 1, s),
             IF slotLog[n].desc.slot = s THEN slotLog[n].desc.access ELSE 0)

C25_SlotTable ==
  LET m == m_descriptorSlots
  IN  /\ \A i, j \in 1..Len(m) : i # j => m[i].slot # m[j].slot
      /\ Len(m) = Cardinality(C25_Slots)
      /\ \A i \in 1..Len(m) : m[i].slot \in C25_Slots
      /\ \A i, j \in 1..Len(m) :
           i < j => C25_First(m[i].slot) < C25_First(m[j].slot)
      /\ \A i \in 1..Len(m) :
           LET first == slotLog[C25_First(m[i].slot)]
           IN  /\ m[i].type = first.desc.type
               /\ m[i].view = first.desc.view
               /\ m[i].stages = C25_OrStages(Len(slotLog), m[i].slot)
               /\ m[i].access = C25_OrAccess(Len(slotLog), m[i].slot)
      /\ \A s \in 0..(MaxSlot + 1) :
           IF s \in C25_Slots
           THEN /\ getBindingId(m, s) \in 0..(Len(m) - 1)
                /\ m[getBindingId(m, s) + 1].slot = s
           ELSE getBindingId(m, s) = InvalidBinding

\* slot 1 was defined before slot 0 and again after it, by another stage and
\* with another type and access
C25_Witness ==
  /\ Len(slotLog) = 3
  /\ Len(m_descriptorSlots) = 2
  /\ m_descriptorSlots[1].slot = 1
  /\ m_descriptorSlots[2].slot = 0
  /\ slotLog[3].desc.slot = 1
  /\ slotLog[3].desc.type # m_descriptorSlots[1].type
  /\ m_descriptorSlots[1].stages =
       VK_SHADER_STAGE_VERTEX_BIT + VK_SHADER_STAGE_FRAGMENT_BIT
  /\ m_descriptorSlots[1].access =
       VK_ACCESS_SHADER_READ_BIT + VK_ACCESS_SHADER_WRITE_BIT

(***************************************************************************)
(* SpecLegacy: one DxvkPipelineLayout is constructed from a slot mapping   *)
(* and, when the constructor returned, destroyed.                          *)
(***************************************************************************)
LegacyInit ==
  InfoIdle /\ LayoutIdle /\ BuildIdle /\ DevIdle /\ ObjIdle /\ SlotIdle /\ MgrIdle
  /\ LateIdle

LegacyTypes ==
  {VK_DESCRIPTOR_TYPE_UNIFORM_BUFFER, VK_DESCRIPTOR_TYPE_UNIFORM_BUFFER_DYNAMIC,
   VK_DESCRIPTOR_TYPE_STORAGE_BUFFER}

\* slotMapping.bindingInfos(): up to one binding more than the constructor
\* accepts
LegacyMappings ==
  UNION {[1..n ->
            {DxvkDescriptorSlot(0, t, VK_IMAGE_VIEW_TYPE_2D, VK_SHADER_STAGE_VERTEX_BIT,
                                VK_ACCESS_SHADER_READ_BIT) : t \in LegacyTypes}] :
         n \in 0..(MaxNumActiveBindings + 1)}

\* slotMapping.pushConstRange()
LegacyRanges ==
  {VkPushConstantRange(0, 0, 0),
   VkPushConstantRange(VK_SHADER_STAGE_VERTEX_BIT, 0, 16)}

\* new DxvkPipelineLayout(vkd, slotMapping, pipelineBindPoint)
LegacyConstruct(slots, range, failAt) ==
  /\ plState = "none"
  /\ LET st == PL_Construct(1, slots, range, failAt)
     IN  /\ pl' = st
         /\ plState' = IF st.thrown THEN "thrown" ELSE "constructed"
         /\ vkLive' = (vkLive \cup SeqToSet(st.created)) \ SeqToSet(st.destroyed)
         /\ vkLog' = vkLog
                     \o [n \in 1..Len(st.created) |->
                           [op |-> "create", handle |-> st.created[n]]]
                     \o [n \in 1..Len(st.destroyed) |->
                           [op |-> "destroy", handle |-> st.destroyed[n]]]
  /\ UNCHANGED othersLegacy

\* delete the layout
LegacyDestroy ==
  /\ plState = "constructed"
  /\ LET destroyed == PL_Destroy(pl)
     IN  /\ vkLive' = vkLive \ SeqToSet(destroyed)
         /\ vkLog' = vkLog \o [n \in 1..Len(destroyed) |->
                                 [op |-> "destroy", handle |-> destroyed[n]]]
  /\ plState' = "destroyed"
  /\ UNCHANGED <<pl, othersLegacy>>

LegacyNext ==
  \/ \E slots \in LegacyMappings, range \in LegacyRanges :
       \E failAt \in 0..PL_NumCalls(slots) : LegacyConstruct(slots, range, failAt)
  \/ LegacyDestroy

SpecLegacy == LegacyInit /\ [][LegacyNext]_vars

(***************************************************************************)
(* C22: if a native creation call fails during legacy DxvkPipelineLayout   *)
(* construction, every native object created earlier in that construction  *)
(* has been destroyed when the error propagates: set-layout failure leaves *)
(* nothing created, pipeline-layout failure destroys the set layout,       *)
(* template failure destroys both the set layout and the pipeline layout.  *)
(***************************************************************************)
C22_Kinds(handles) == [n \in 1..Len(handles) |-> handles[n].kind]

C22_LegacyCleanup ==
  plState = "thrown" =>
    /\ vkLive = {}
    /\ SeqToSet(pl.destroyed) = SeqToSet(pl.created)
    /\ Len(pl.destroyed) = Len(pl.created)
    /\ C22_Kinds(pl.created) \in
         {<< >>, <<"setLayout">>, <<"setLayout", "pipelineLayout">>}
    /\ C22_Kinds(pl.destroyed) = C22_Kinds(pl.created)

\* the template creation failed after the set layout and the pipeline layout
\* had been created
C22_Witness ==
  /\ plState = "thrown"
  /\ C22_Kinds(pl.created) = <<"setLayout", "pipelineLayout">>
  /\ pl.calls = 3

(***************************************************************************)
(* C23: legacy DxvkPipelineLayout construction from a slot mapping with n  *)
(* bindings: if n exceeds the hard maximum it fails with a fatal error     *)
(* before any native object is created; if n = 0 it creates no             *)
(* descriptor-set layout and no update template and a pipeline layout      *)
(* referencing zero sets; if 1 <= n <= maximum it creates exactly one set  *)
(* layout, one update template and one pipeline layout referencing that    *)
(* single set.                                                             *)
(***************************************************************************)
C23_ByBindingCount ==
  /\ (plState # "none" /\ pl.bindingCount > MaxNumActiveBindings) =>
       /\ plState = "thrown"
       /\ pl.calls = 0
       /\ vkLog = << >>
  /\ (plState = "constructed" /\ pl.bindingCount = 0) =>
       /\ C22_Kinds(pl.created) = <<"pipelineLayout">>
       /\ pl.m_descriptorSetLayout = VK_NULL_HANDLE
       /\ pl.m_descriptorTemplate = VK_NULL_HANDLE
       /\ pl.setLayoutCount = 0
  /\ (plState = "constructed" /\ pl.bindingCount \in 1..MaxNumActiveBindings) =>
       /\ C22_Kinds(pl.created) = <<"setLayout", "pipelineLayout", "template">>
       /\ pl.setLayoutCount = 1
       /\ pl.pSetLayouts = pl.m_descriptorSetLayout
       /\ pl.m_descriptorSetLayout = pl.created[1]
       /\ pl.m_pipelineLayout = pl.created[2]
       /\ pl.m_descriptorTemplate = pl.created[3]

\* a mapping with as many bindings as the constructor accepts was built
C23_Witness ==
  /\ plState = "constructed"
  /\ pl.bindingCount = MaxNumActiveBindings
  /\ Len(pl.created) = 3
  /\ pl.m_dynamicSlots # << >>

(***************************************************************************)
(* Spec: threads calling DxvkPipelineManager::createComputePipeline and    *)
(* createGraphicsPipeline.                                                 *)
(***************************************************************************)
\* the bindings the shaders of the model declare (DxvkShader::getBindings)
ShaderBindingList(shader) ==
  CASE shader \in {"vsA", "vsB"} ->
         <<DxvkBindingInfo(VK_DESCRIPTOR_TYPE_UNIFORM_BUFFER, 0, VK_IMAGE_VIEW_TYPE_2D,
                           VK_SHADER_STAGE_VERTEX_BIT, VK_ACCESS_SHADER_READ_BIT)>>
    [] shader = "tcs" ->
         <<DxvkBindingInfo(VK_DESCRIPTOR_TYPE_UNIFORM_BUFFER, 1, VK_IMAGE_VIEW_TYPE_2D,
                           VK_SHADER_STAGE_TESSELLATION_CONTROL_BIT,
                           VK_ACCESS_SHADER_READ_BIT)>>
    [] shader = "tes" ->
         <<DxvkBindingInfo(VK_DESCRIPTOR_TYPE_UNIFORM_BUFFER, 0, VK_IMAGE_VIEW_TYPE_2D,
                           VK_SHADER_STAGE_TESSELLATION_EVALUATION_BIT,
                           VK_ACCESS_SHADER_READ_BIT)>>
    [] shader = "gs" ->
         <<DxvkBindingInfo(VK_DESCRIPTOR_TYPE_UNIFORM_BUFFER, 0, VK_IMAGE_VIEW_TYPE_2D,
                           VK_SHADER_STAGE_GEOMETRY_BIT, VK_ACCESS_SHADER_READ_BIT)>>
    [] shader = "fs" ->
         <<DxvkBindingInfo(VK_DESCRIPTOR_TYPE_SAMPLED_IMAGE, 1, VK_IMAGE_VIEW_TYPE_2D,
                           VK_SHADER_STAGE_FRAGMENT_BIT, VK_ACCESS_SHADER_READ_BIT),
           DxvkBindingInfo(VK_DESCRIPTOR_TYPE_UNIFORM_BUFFER, 0, VK_IMAGE_VIEW_TYPE_2D,
                           VK_SHADER_STAGE_FRAGMENT_BIT, VK_ACCESS_SHADER_READ_BIT)>>
    [] shader = "csA" ->
         <<DxvkBindingInfo(VK_DESCRIPTOR_TYPE_STORAGE_BUFFER, 0, VK_IMAGE_VIEW_TYPE_2D,
                           VK_SHADER_STAGE_COMPUTE_BIT, VK_ACCESS_SHADER_WRITE_BIT)>>
    [] OTHER -> << >>

\* shader->getBindings(): the fragment shader also declares push constants
getBindings(shader) ==
  IF shader = "fs"
  THEN addPushConstantRange(AddBindings(EmptyLayout, ShaderBindingList(shader)),
         VkPushConstantRange(VK_SHADER_STAGE_FRAGMENT_BIT, 0, 16))
  ELSE AddBindings(EmptyLayout, ShaderBindingList(shader))

DxvkComputePipelineShaders(cs) == [cs |-> cs]

DxvkGraphicsPipelineShaders(vs, tcs, tes, gs, fs) ==
  [vs |-> vs, tcs |-> tcs, tes |-> tes, gs |-> gs, fs |-> fs]

\* the calls the threads make
Requests ==
  {[kind |-> "compute", shaders |-> DxvkComputePipelineShaders(NoShader)],
   [kind |-> "compute", shaders |-> DxvkComputePipelineShaders("csA")],
   [kind |-> "graphics",
    shaders |-> DxvkGraphicsPipelineShaders(NoShader, NoShader, NoShader, NoShader, "fs")],
   [kind |-> "graphics",
    shaders |-> DxvkGraphicsPipelineShaders("vsA", NoShader, NoShader, NoShader, "fs")],
   [kind |-> "graphics",
    shaders |-> DxvkGraphicsPipelineShaders("vsB", NoShader, NoShader, NoShader, "fs")],
   [kind |-> "graphics",
    shaders |-> DxvkGraphicsPipelineShaders("vsA", "tcs", "tes", "gs", NoShader)]}

\* if (shaders.cs == nullptr) / if (shaders.vs == nullptr)
MissingShader_Unchecked(req) == FALSE

MissingShader(req) ==
  IF req.kind = "compute" THEN req.shaders.cs = NoShader
  ELSE req.shaders.vs = NoShader

\* merges the tessellation control stage before the vertex stage
MergedLayout_TessFirst(shaders) ==
  LET l0 == IF shaders.tcs # NoShader
            THEN Layout_merge(EmptyLayout, getBindings(shaders.tcs)) ELSE EmptyLayout
      l1 == Layout_merge(l0, getBindings(shaders.vs))
      l2 == IF shaders.tes # NoShader THEN Layout_merge(l1, getBindings(shaders.tes)) ELSE l1
      l3 == IF shaders.gs # NoShader THEN Layout_merge(l2, getBindings(shaders.gs)) ELSE l2
      l4 == IF shaders.fs # NoShader THEN Layout_merge(l3, getBindings(shaders.fs)) ELSE l3
  IN  l4

\* createGraphicsPipeline's mergedLayout
MergedLayout(shaders) ==
  LET l0 == Layout_merge(EmptyLayout, getBindings(shaders.vs))
      l1 == IF shaders.tcs # NoShader THEN Layout_merge(l0, getBindings(shaders.tcs)) ELSE l0
      l2 == IF shaders.tes # NoShader THEN Layout_merge(l1, getBindings(shaders.tes)) ELSE l1
      l3 == IF shaders.gs # NoShader THEN Layout_merge(l2, getBindings(shaders.gs)) ELSE l2
      l4 == IF shaders.fs # NoShader THEN Layout_merge(l3, getBindings(shaders.fs)) ELSE l3
  IN  l4

\* the layout a call passes to createPipelineLayout
RequestLayout(req) ==
  IF req.kind = "compute" THEN getBindings(req.shaders.cs)
  ELSE MergedLayout(req.shaders)

\* std::lock_guard<dxvk::mutex> lock(m_mutex) can take the mutex
MutexFree_NoMutex == TRUE

MutexFree == m_mutex = NoThread

\* m_pipelineLayouts.find(layout): the entries whose key equals layout
LayoutFind(layout) == {e \in m_pipelineLayouts : Layout_eq(e.key, layout)}

\* emplace on a pipeline map: an entry of the key that is there is kept
PipelineEmplace_Evict(map, key, value) == (key :> value)

PipelineEmplace(map, key, value) ==
  IF key \in DOMAIN map THEN map ELSE map @@ (key :> value)

PipelineMap(req) ==
  IF req.kind = "compute" THEN m_computePipelines ELSE m_graphicsPipelines

InCall == {"lock", "find", "layout", "emplace"}

Sum(f) ==
  LET RECURSIVE SumTo(_)
      SumTo(n) == IF n = 0 THEN 0 ELSE f[n] + SumTo(n - 1)
  IN  SumTo(NumThreads)

MgrInit ==
  /\ InfoIdle
  /\ LayoutIdle
  /\ BuildIdle
  /\ SlotIdle
  /\ LateIdle
  /\ DevIdle
  /\ ObjIdle
  /\ MgrIdle

\* a thread enters createComputePipeline / createGraphicsPipeline: the null
\* check, before the mutex is touched
Call(t, req) ==
  /\ pc[t] \in {"idle", "done", "threw"}
  /\ Sum(callsMade) < MaxCalls
  /\ call' = [call EXCEPT ![t] = req]
  /\ callsMade' = [callsMade EXCEPT ![t] = @ + 1]
  /\ raced' = [raced EXCEPT ![t] =
                 \E u \in Threads \ {t} : pc[u] \in InCall /\ call[u] = req]
  /\ ret' = [ret EXCEPT ![t] = Null]
  /\ pc' = [pc EXCEPT ![t] = IF MissingShader(req) THEN "done" ELSE "lock"]
  /\ UNCHANGED <<m_mutex, cacheVars, local, nextId, built, handedOut, devVars, othersMgr>>

\* std::lock_guard<dxvk::mutex> lock(m_mutex)
Lock(t) ==
  /\ pc[t] = "lock"
  /\ MutexFree
  /\ m_mutex' = t
  /\ pc' = [pc EXCEPT ![t] = "find"]
  /\ UNCHANGED <<cacheVars, call, local, ret, nextId, callsMade, built, handedOut,
                 raced, devVars, othersMgr>>

\* returns on a hit with the mutex still locked
FindHit_KeepLock(t) ==
  /\ pc[t] = "find"
  /\ call[t].shaders \in DOMAIN PipelineMap(call[t])
  /\ ret' = [ret EXCEPT ![t] = PipelineMap(call[t])[call[t].shaders].id]
  /\ handedOut' = handedOut \cup
       {[kind |-> call[t].kind, shaders |-> call[t].shaders, id |-> ret'[t]]}
  /\ pc' = [pc EXCEPT ![t] = "done"]
  /\ UNCHANGED <<m_mutex, cacheVars, call, local, nextId, callsMade, built, raced,
                 devVars, othersMgr>>

\* find on the pipeline map: a hit returns &pair->second and unlocks
FindHit(t) ==
  /\ pc[t] = "find"
  /\ call[t].shaders \in DOMAIN PipelineMap(call[t])
  /\ ret' = [ret EXCEPT ![t] = PipelineMap(call[t])[call[t].shaders].id]
  /\ handedOut' = handedOut \cup
       {[kind |-> call[t].kind, shaders |-> call[t].shaders, id |-> ret'[t]]}
  /\ m_mutex' = NoThread
  /\ pc' = [pc EXCEPT ![t] = "done"]
  /\ UNCHANGED <<cacheVars, call, local, nextId, callsMade, built, raced, devVars,
                 othersMgr>>

\* a miss builds the layout to look up: the compute shader's bindings, or the
\* stages' bindings merged
FindMiss(t) ==
  /\ pc[t] = "find"
  /\ call[t].shaders \notin DOMAIN PipelineMap(call[t])
  /\ local' = [local EXCEPT ![t].mergedLayout = RequestLayout(call[t])]
  /\ pc' = [pc EXCEPT ![t] = "layout"]
  /\ UNCHANGED <<m_mutex, cacheVars, call, ret, nextId, callsMade, built, handedOut,
                 raced, devVars, othersMgr>>

\* createPipelineLayout finds the layout in m_pipelineLayouts
CreatePipelineLayoutHit(t) ==
  /\ pc[t] = "layout"
  /\ LayoutFind(local[t].mergedLayout) # {}
  /\ \E e \in LayoutFind(local[t].mergedLayout) :
       local' = [local EXCEPT ![t].layout = e.value.id]
  /\ pc' = [pc EXCEPT ![t] = "emplace"]
  /\ UNCHANGED <<m_mutex, cacheVars, call, ret, nextId, callsMade, built, handedOut,
                 raced, devVars, othersMgr>>

\* inserts the entry before its value is constructed, and leaves it there
\* when the constructor throws
CreatePipelineLayoutMiss_InsertFirst(t, failAt) ==
  /\ pc[t] = "layout"
  /\ LayoutFind(local[t].mergedLayout) = {}
  /\ LET st == BLO_Construct(nextId, local[t].mergedLayout, failAt)
     IN  /\ nextId' = nextId + 1
         /\ vkLive' = vkLive \cup SeqToSet(st.created)
         /\ vkLog' = vkLog \o [n \in 1..Len(st.created) |->
                                 [op |-> "create", handle |-> st.created[n]]]
         /\ m_pipelineLayouts' = m_pipelineLayouts \cup
              {[key |-> local[t].mergedLayout, value |-> st]}
         /\ IF st.thrown
            THEN /\ m_mutex' = NoThread
                 /\ pc' = [pc EXCEPT ![t] = "threw"]
                 /\ UNCHANGED local
            ELSE /\ local' = [local EXCEPT ![t].layout = st.id]
                 /\ pc' = [pc EXCEPT ![t] = "emplace"]
                 /\ UNCHANGED m_mutex
  /\ UNCHANGED <<m_computePipelines, m_graphicsPipelines, call, ret, callsMade, built,
                 handedOut, raced, othersMgr>>

\* createPipelineLayout does not find it and emplaces a new
\* DxvkBindingLayoutObjects; if its constructor throws, nothing is inserted
\* and the exception leaves the create call, unlocking the mutex
CreatePipelineLayoutMiss(t, failAt) ==
  /\ pc[t] = "layout"
  /\ LayoutFind(local[t].mergedLayout) = {}
  /\ LET st == BLO_Construct(nextId, local[t].mergedLayout, failAt)
     IN  /\ nextId' = nextId + 1
         /\ vkLive' = vkLive \cup SeqToSet(st.created)
         /\ vkLog' = vkLog \o [n \in 1..Len(st.created) |->
                                 [op |-> "create", handle |-> st.created[n]]]
         /\ IF st.thrown
            THEN /\ m_mutex' = NoThread
                 /\ pc' = [pc EXCEPT ![t] = "threw"]
                 /\ UNCHANGED <<m_pipelineLayouts, local>>
            ELSE /\ m_pipelineLayouts' = m_pipelineLayouts \cup
                      {[key |-> local[t].mergedLayout, value |-> st]}
                 /\ local' = [local EXCEPT ![t].layout = st.id]
                 /\ pc' = [pc EXCEPT ![t] = "emplace"]
                 /\ UNCHANGED m_mutex
  /\ UNCHANGED <<m_computePipelines, m_graphicsPipelines, call, ret, callsMade, built,
                 handedOut, raced, othersMgr>>

\* emplace(piecewise_construct, tuple(shaders), tuple(this, shaders, layout))
\* constructs the pipeline object, then return &iter.first->second, unlock
Emplace(t) ==
  /\ pc[t] = "emplace"
  /\ LET pipeline == [id |-> nextId, shaders |-> call[t].shaders,
                      layout |-> local[t].layout]
         map == PipelineEmplace(PipelineMap(call[t]), call[t].shaders, pipeline)
     IN  /\ built' = built \cup
               {[kind |-> call[t].kind, shaders |-> call[t].shaders, id |-> nextId,
                 by |-> t]}
         /\ nextId' = nextId + 1
         /\ IF call[t].kind = "compute"
            THEN m_computePipelines' = map /\ UNCHANGED m_graphicsPipelines
            ELSE m_graphicsPipelines' = map /\ UNCHANGED m_computePipelines
         /\ ret' = [ret EXCEPT ![t] = map[call[t].shaders].id]
         /\ handedOut' = handedOut \cup
              {[kind |-> call[t].kind, shaders |-> call[t].shaders, id |-> ret'[t]]}
  /\ m_mutex' = NoThread
  /\ pc' = [pc EXCEPT ![t] = "done"]
  /\ UNCHANGED <<m_pipelineLayouts, call, local, callsMade, raced, devVars, othersMgr>>

\* the pipeline object's constructor throws inside emplace: nothing is
\* inserted, and the exception leaves the create call, unlocking the mutex
EmplaceThrow(t) ==
  /\ pc[t] = "emplace"
  /\ m_mutex' = NoThread
  /\ pc' = [pc EXCEPT ![t] = "threw"]
  /\ UNCHANGED <<cacheVars, call, local, ret, nextId, callsMade, built, handedOut,
                 raced, devVars, othersMgr>>

Next ==
  \/ \E t \in Threads, req \in Requests : Call(t, req)
  \/ \E t \in Threads : Lock(t)
  \/ \E t \in Threads : FindHit(t)
  \/ \E t \in Threads : FindMiss(t)
  \/ \E t \in Threads : CreatePipelineLayoutHit(t)
  \/ \E t \in Threads :
       \E failAt \in MgrFailPoints(local[t].mergedLayout) :
         CreatePipelineLayoutMiss(t, failAt)
  \/ \E t \in Threads : Emplace(t)
  \/ \E t \in Threads : EmplaceThrow(t)

Spec == MgrInit /\ [][Next]_vars

PcValues == {"idle", "lock", "find", "layout", "emplace", "done", "threw"}

\* Thread t moves on inside a create call. A thread that holds the mutex can
\* always take a step (find hits or misses, the layout is cached or gets
\* constructed, emplace returns or throws); a thread at the lock_guard can
\* take one while the mutex is free.
ThreadRuns(t) ==
  /\ \/ pc[t] \in {"find", "layout", "emplace"}
     \/ pc[t] = "lock" /\ MutexFree
  /\ \E p \in PcValues \ {pc[t]} : pc' = [pc EXCEPT ![t] = p]

\* A thread inside a create call keeps running: no code in the call waits
\* for anything but the mutex. Callers need not call again, and lock() is
\* only weakly fair: it succeeds once the mutex stays free.
SpecLive == Spec /\ \A t \in Threads : WF_pc(ThreadRuns(t))

(***************************************************************************)
(* C1: for any number of callers concurrently invoking                     *)
(* createComputePipeline (or createGraphicsPipeline) with the same shader  *)
(* combination, under every interleaving exactly one pipeline object is    *)
(* constructed for that key and every caller receives a reference to that  *)
(* same object.                                                            *)
(***************************************************************************)
C1_HasShader(req) ==
  \/ req.kind = "compute" /\ req.shaders.cs # NoShader
  \/ req.kind = "graphics" /\ req.shaders.vs # NoShader

C1_BuiltFor(req) == {b \in built : b.kind = req.kind /\ b.shaders = req.shaders}

C1_OnePipelinePerKey ==
  /\ \A req \in Requests : Cardinality(C1_BuiltFor(req)) <= 1
  /\ \A t \in Threads :
       (pc[t] = "done" /\ C1_HasShader(call[t])) =>
         /\ Cardinality(C1_BuiltFor(call[t])) = 1
         /\ \A b \in C1_BuiltFor(call[t]) : ret[t] = b.id
  /\ \A t, u \in Threads :
       (pc[t] = "done" /\ pc[u] = "done" /\ call[t] = call[u]) => ret[t] = ret[u]

\* two threads were inside createGraphicsPipeline for the same shaders at
\* the same time, and both have returned the one object
C1_Witness ==
  \E t \in Threads : \E u \in Threads \ {t} :
    /\ pc[t] = "done" /\ pc[u] = "done"
    /\ call[t] = call[u]
    /\ call[t].kind = "graphics"
    /\ raced[u]
    /\ ret[t] # Null
    /\ ret[t] = ret[u]

(***************************************************************************)
(* C2: when two createGraphicsPipeline calls use different shader 5-tuples *)
(* whose merged BindingLayouts are equal, the graphics cache gains two     *)
(* distinct pipeline entries while the layout cache holds exactly one      *)
(* BindingLayoutObjects for that layout, and both pipelines are            *)
(* constructed with the same BindingLayoutObjects reference.               *)
(***************************************************************************)
C2_SharedLayoutObjects ==
  \A k1, k2 \in DOMAIN m_graphicsPipelines :
    (k1 # k2 /\ MergedLayout(k1) = MergedLayout(k2)) =>
      /\ m_graphicsPipelines[k1].id # m_graphicsPipelines[k2].id
      /\ m_graphicsPipelines[k1].layout = m_graphicsPipelines[k2].layout
      /\ Cardinality({e \in m_pipelineLayouts : e.key = MergedLayout(k1)}) = 1
      /\ \A e \in m_pipelineLayouts :
           e.key = MergedLayout(k1) => e.value.id = m_graphicsPipelines[k1].layout

C2_Witness ==
  \E k1, k2 \in DOMAIN m_graphicsPipelines :
    /\ k1.vs = "vsA" /\ k2.vs = "vsB"
    /\ MergedLayout(k1) = MergedLayout(k2)
    /\ Cardinality(DOMAIN m_graphicsPipelines) = 2
    /\ Cardinality(m_pipelineLayouts) = 1

(***************************************************************************)
(* C3: the compute-pipeline, graphics-pipeline and layout-objects caches   *)
(* are append-only: every key once present stays present and stays mapped  *)
(* to the same object, so a reference returned by an earlier call is still *)
(* the one returned for that key by every later call.                      *)
(***************************************************************************)
C3_Step ==
  /\ \A k \in DOMAIN m_computePipelines :
       k \in DOMAIN m_computePipelines' /\ m_computePipelines'[k] = m_computePipelines[k]
  /\ \A k \in DOMAIN m_graphicsPipelines :
       k \in DOMAIN m_graphicsPipelines' /\ m_graphicsPipelines'[k] = m_graphicsPipelines[k]
  /\ m_pipelineLayouts \subseteq m_pipelineLayouts'
  /\ \A h1, h2 \in handedOut' :
       (h1.kind = h2.kind /\ h1.shaders = h2.shaders) => h1.id = h2.id

C3_AppendOnly == [][C3_Step]_vars

\* a call by another thread, started when no call for the same shaders was
\* under way, returned the object an earlier call built and returned
C3_Witness ==
  \E t \in Threads : \E b \in built :
    /\ pc[t] = "done"
    /\ ret[t] = b.id
    /\ b.by # t
    /\ ~ raced[t]
    /\ pc[b.by] = "done"
    /\ ret[b.by] = b.id
    /\ call[t].shaders \in DOMAIN PipelineMap(call[t])

(***************************************************************************)
(* C4: createComputePipeline with a null compute shader and                *)
(* createGraphicsPipeline with a null vertex shader return null and leave  *)
(* the compute-pipeline cache, the graphics-pipeline cache and the         *)
(* layout-objects cache unchanged, and create no native object.            *)
(***************************************************************************)
C4_NullCall(req) ==
  \/ req.kind = "compute" /\ req.shaders.cs = NoShader
  \/ req.kind = "graphics" /\ req.shaders.vs = NoShader

C4_Step ==
  \A t \in Threads :
    \* a call by t starts in this step
    (callsMade'[t] # callsMade[t] /\ C4_NullCall(call'[t])) =>
      /\ pc'[t] = "done"
      /\ ret'[t] = Null
      /\ UNCHANGED <<cacheVars, vkLive, vkLog, m_mutex, nextId>>

C4_NullShaderReturnsNull ==
  /\ [][C4_Step]_vars
  /\ [](\A t \in Threads :
          C4_NullCall(call[t]) => (pc[t] = "done" /\ ret[t] = Null))

\* a null compute call and a null graphics call have returned
C4_Witness ==
  \E t \in Threads : \E u \in Threads \ {t} :
    /\ pc[t] = "done" /\ call[t].kind = "compute" /\ C4_NullCall(call[t])
    /\ pc[u] = "done" /\ call[u].kind = "graphics" /\ C4_NullCall(call[u])
    /\ ret[t] = Null /\ ret[u] = Null

(***************************************************************************)
(* C17: a create call whose BindingLayoutObjects or pipeline construction  *)
(* fails leaves no partially built entry behind: the layout cache contains *)
(* only fully constructed BindingLayoutObjects, the pipeline caches        *)
(* contain only fully constructed pipelines, and a failed                  *)
(* BindingLayoutObjects construction adds an entry to neither the layout   *)
(* cache nor the pipeline cache.                                           *)
(***************************************************************************)
C17_FullyConstructed(e) ==
  /\ ~ e.value.thrown
  /\ e.value.m_layout = e.key
  /\ e.value.m_pipelineLayout # VK_NULL_HANDLE
  /\ \A i \in 1..SetCount : e.value.m_setLayouts[i] # VK_NULL_HANDLE
  /\ Len(e.value.created) = BLO_NumCalls(e.key)
  /\ SeqToSet(e.value.created) \subseteq vkLive

C17_CachesComplete ==
  /\ \A e \in m_pipelineLayouts : C17_FullyConstructed(e)
  /\ \A kind \in {"compute", "graphics"} :
       LET map == IF kind = "compute" THEN m_computePipelines ELSE m_graphicsPipelines
       IN  \A k \in DOMAIN map :
             /\ \E b \in built : b.kind = kind /\ b.shaders = k /\ b.id = map[k].id
             /\ map[k].shaders = k
             /\ \E e \in m_pipelineLayouts : e.value.id = map[k].layout

C17_Step ==
  \A t \in Threads :
    /\ (pc[t] = "layout" /\ pc'[t] = "threw") => UNCHANGED cacheVars
    /\ (pc[t] = "emplace" /\ pc'[t] = "threw") => UNCHANGED <<cacheVars, built>>

C17_NoPartialEntry == []C17_CachesComplete /\ [][C17_Step]_vars

\* one call failed in the BindingLayoutObjects constructor after it had
\* created native objects, another in the pipeline constructor: the caches
\* hold the one layout object that was completed, and no pipeline
C17_Witness ==
  \E t \in Threads : \E u \in Threads \ {t} :
    /\ pc[t] = "threw" /\ pc[u] = "threw"
    /\ local[t].layout = Null
    /\ local[u].layout # Null
    /\ \E h \in vkLive : \A e \in m_pipelineLayouts : h.id # e.value.id
    /\ Cardinality(m_pipelineLayouts) = 1
    /\ m_computePipelines = << >> /\ m_graphicsPipelines = << >>

(***************************************************************************)
(* C18 as claimed: at no time are two threads both past the null check     *)
(* inside createComputePipeline and/or createGraphicsPipeline.             *)
(***************************************************************************)
C18_OnePastNullCheck ==
  Cardinality({t \in Threads : pc[t] \in InCall}) <= 1

(***************************************************************************)
(* C18 amended: one mutex serializes all get-or-create work: at no time    *)
(* are two threads both past the acquisition of the mutex that follows the *)
(* null check inside createComputePipeline and/or createGraphicsPipeline   *)
(* (any number may be blocked acquiring it), and the layout-objects cache  *)
(* is read or written only by a thread that currently holds that mutex,    *)
(* from cache lookup through native object construction and insertion.     *)
(***************************************************************************)
C18_Critical == {"find", "layout", "emplace"}

C18_OneInside ==
  /\ Cardinality({t \in Threads : pc[t] \in C18_Critical}) <= 1
  /\ \A t \in Threads : pc[t] \in C18_Critical <=> m_mutex = t

\* a step that writes the layout cache, or that takes a reference out of it
\* (createPipelineLayout's result, local.layout), is a step of the thread
\* that holds the mutex
C18_Step ==
  \A t \in Threads :
    (m_pipelineLayouts' # m_pipelineLayouts \/ local'[t].layout # local[t].layout)
      => \E u \in Threads :
           /\ m_mutex = u
           /\ pc[u] = "layout" /\ pc'[u] # "layout"
           /\ \A v \in Threads \ {u} : local'[v] = local[v] /\ pc'[v] = pc[v]

C18_MutualExclusion == []C18_OneInside /\ [][C18_Step]_vars

\* one thread is inside createComputePipeline, about to construct the
\* layout objects, while another is blocked on the mutex in
\* createGraphicsPipeline
C18_Witness ==
  \E t \in Threads : \E u \in Threads \ {t} :
    /\ pc[t] = "layout" /\ call[t].kind = "compute"
    /\ pc[u] = "lock" /\ call[u].kind = "graphics"
    /\ m_mutex = t

(***************************************************************************)
(* C19: every create call that acquires the manager's mutex eventually     *)
(* releases it, whether it ends in a cache hit, a successful construction  *)
(* or a fatal construction failure; hence a caller blocked on the mutex    *)
(* eventually enters its critical section.                                 *)
(***************************************************************************)
C19_MutexReleased ==
  \A t \in Threads :
    /\ (m_mutex = t) ~> (m_mutex # t /\ pc[t] \in {"done", "threw"})
    /\ (pc[t] = "lock") ~> (pc[t] = "find" /\ m_mutex = t)

\* a caller waits at the lock_guard while the call that held the mutex has
\* just ended in a failed construction and left the mutex free
C19_Witness ==
  \E t \in Threads : \E u \in Threads \ {t} :
    /\ pc[t] = "lock"
    /\ pc[u] = "threw"
    /\ m_mutex = NoThread
    /\ vkLog # <<>>

(***************************************************************************)
(* C24: on a graphics cache miss, the layout passed to the layout cache    *)
(* equals the result of merging into an empty BindingLayout the binding    *)
(* layouts of exactly the present stages, in the fixed order vertex,       *)
(* tess-control, tess-eval, geometry, fragment (absent stages contribute   *)
(* nothing), so the same shader tuple always produces the same binding     *)
(* indices.                                                                *)
(***************************************************************************)
\* the shaders of a tuple that are present, in stage order
C24_Present(shaders) ==
  SelectSeq(<<shaders.vs, shaders.tcs, shaders.tes, shaders.gs, shaders.fs>>,
            LAMBDA sh : sh # NoShader)

RECURSIVE C24_MergeAll(_, _)
C24_MergeAll(layout, present) ==
  IF present = << >> THEN layout
  ELSE C24_MergeAll(Layout_merge(layout, getBindings(Head(present))), Tail(present))

\* threads past the cache miss of a graphics call
C24_Missed ==
  {t \in Threads : call[t].kind = "graphics" /\ pc[t] \in {"layout", "emplace"}}

C24_FixedMergeOrder ==
  \A t \in C24_Missed :
    /\ local[t].mergedLayout.m_bindings =
         C24_MergeAll(EmptyLayout, C24_Present(call[t].shaders)).m_bindings
    /\ local[t].mergedLayout.m_pushConst =
         C24_MergeAll(EmptyLayout, C24_Present(call[t].shaders)).m_pushConst
    /\ pc[t] = "emplace" =>
         \E e \in m_pipelineLayouts :
           /\ e.key = local[t].mergedLayout
           /\ e.value.id = local[t].layout

\* a call with vertex, tessellation and geometry shaders missed the cache:
\* the vertex shader's slot 0 comes before the tess-control shader's slot 1
C24_Witness ==
  \E t \in C24_Missed :
    /\ pc[t] = "emplace"
    /\ call[t].shaders.tcs # NoShader
    /\ call[t].shaders.gs # NoShader
    /\ Len(local[t].mergedLayout.m_bindings[VsAll + 1]) = 2
    /\ local[t].mergedLayout.m_bindings[VsAll + 1][1].resourceBinding = 0
    /\ local[t].mergedLayout.m_bindings[VsAll + 1][2].resourceBinding = 1

(***************************************************************************)
(* C26: addBinding and merge never move or remove an existing entry of a   *)
(* BindingLayout: in every set the binding count never decreases, an entry *)
(* once at index j stays at index j with unchanged descriptor kind, slot   *)
(* and view shape (only its stage and access masks can gain bits), and a   *)
(* non-merged binding is appended at the end of its set.                   *)
(***************************************************************************)
C26_EntryKept(old, new) ==
  /\ new.descriptorType = old.descriptorType
  /\ new.resourceBinding = old.resourceBinding
  /\ new.viewType = old.viewType
  /\ BitAnd(new.stages, old.stages) = old.stages
  /\ BitAnd(new.access, old.access) = old.access

\* the step was layouts[l].addBinding(b)
C26_Added(l, b) ==
  /\ buildLog'[l] = Append(buildLog[l], [op |-> "addBinding", arg |-> b])

C26_Step ==
  \A l \in LayoutIds :
    /\ \A i \in 1..SetCount :
         LET old == layouts[l].m_bindings[i]
             new == layouts'[l].m_bindings[i]
         IN  /\ Len(new) >= Len(old)
             /\ \A j \in 1..Len(old) : C26_EntryKept(old[j], new[j])
    /\ \A b \in BuildBindings :
         C26_Added(l, b) =>
           LET set == computeSetIndex(b) + 1
               old == layouts[l].m_bindings[set]
               new == layouts'[l].m_bindings[set]
           IN  /\ \A i \in (1..SetCount) \ {set} :
                    layouts'[l].m_bindings[i] = layouts[l].m_bindings[i]
               /\ IF \E j \in 1..Len(old) : canMerge(old[j], b)
                  THEN Len(new) = Len(old)
                  ELSE new = Append(old, b)

C26_EntriesStay == [][C26_Step]_vars

\* a geometry-stage declaration of slot 0 was merged into the first of two
\* entries of the vertex set
C26_Witness ==
  \E l \in LayoutIds :
    /\ Len(buildLog[l]) = 3
    /\ buildLog[l][3].op = "addBinding"
    /\ buildLog[l][3].arg.stages = VK_SHADER_STAGE_GEOMETRY_BIT
    /\ Len(layouts[l].m_bindings[VsAll + 1]) = 2
    /\ layouts[l].m_bindings[VsAll + 1][1].resourceBinding = 0
    /\ layouts[l].m_bindings[VsAll + 1][1].stages =
         VK_SHADER_STAGE_VERTEX_BIT + VK_SHADER_STAGE_GEOMETRY_BIT
    /\ layouts[l].m_bindings[VsAll + 1][2].resourceBinding = 1

(***************************************************************************)
(* C27: after any sequence of addBinding and merge calls, every entry      *)
(* stored in set i of a BindingLayout satisfies computeSetIndex(entry) = i.*)
(***************************************************************************)
C27_EntriesInTheirSet ==
  \A l \in LayoutIds : \A i \in 0..(SetCount - 1) :
    \A j \in 1..Len(layouts[l].m_bindings[i + 1]) :
      computeSetIndex(layouts[l].m_bindings[i + 1][j]) = i

\* an entry of the vertex set has gained a stage by a merge in place, next
\* to an entry of the compute set for the same resource
C27_Witness ==
  \E l \in LayoutIds :
    /\ \E j \in 1..Len(layouts[l].m_bindings[VsAll + 1]) :
         layouts[l].m_bindings[VsAll + 1][j].stages =
           VK_SHADER_STAGE_VERTEX_BIT + VK_SHADER_STAGE_GEOMETRY_BIT
    /\ \E j \in 1..Len(layouts[l].m_bindings[CsAll + 1]) :
         layouts[l].m_bindings[CsAll + 1][j].stages = VK_SHADER_STAGE_COMPUTE_BIT
    /\ opCount = 3

(***************************************************************************)
(* C28: BindingLayout merge is idempotent: for all layouts A and B, after  *)
(* A.merge(B), a second A.merge(B) leaves A unchanged (same entries at the *)
(* same indices with the same masks, same push-constant range), so that    *)
(* the result is eq to the result of the single merge.                     *)
(***************************************************************************)
\* the layouts a layout of the state can be merged with
C28_Sources(l) == BuildSources \cup {layouts[o] : o \in LayoutIds \ {l}}

C28_MergeTwice ==
  \A l \in LayoutIds : \A B \in C28_Sources(l) :
    LET once == Layout_merge(layouts[l], B)
        twice == Layout_merge(once, B)
    IN  /\ twice.m_bindings = once.m_bindings
        /\ twice.m_pushConst = once.m_pushConst
        /\ Layout_eq(twice, once)

\* a merge call that repeats the call before it changes nothing
C28_Step ==
  \A l \in LayoutIds : \A B \in BuildSources :
    (/\ buildLog[l] # << >>
     /\ buildLog[l][Len(buildLog[l])] = [op |-> "merge", arg |-> B]
     /\ buildLog'[l] = Append(buildLog[l], [op |-> "merge", arg |-> B]))
      => layouts'[l] = layouts[l]

C28_MergeIdempotent == []C28_MergeTwice /\ [][C28_Step]_vars

\* a layout with an entry of its own was merged twice with the shader that
\* declares an image and push constants
C28_Witness ==
  \E l \in LayoutIds :
    /\ Len(buildLog[l]) = 3
    /\ buildLog[l][1].op = "addBinding"
    /\ buildLog[l][2].op = "merge"
    /\ buildLog[l][3] = buildLog[l][2]
    /\ buildLog[l][2].arg.m_pushConst.size # 0
    /\ layouts[l].m_pushConst.size # 0
    /\ layouts[l].m_bindings[FsViews + 1] # << >>

(***************************************************************************)
(* SpecScratch: a BindingLayout is filled by addBinding calls with up to   *)
(* one entry more than the scratch arrays of the DxvkBindingLayoutObjects  *)
(* constructor hold, and then passed to that constructor. A write past the *)
(* end of a std::array is undefined: the constructor may go on as if       *)
(* nothing had happened, or anything else may happen ("undefined").        *)
(***************************************************************************)
ScratchInit ==
  InfoIdle /\ LayoutIdle /\ BuildIdle /\ DevIdle /\ ObjIdle /\ SlotIdle /\ MgrIdle
  /\ LateIdle

ScratchBindings ==
  {DxvkBindingInfo(VK_DESCRIPTOR_TYPE_UNIFORM_BUFFER, s, VK_IMAGE_VIEW_TYPE_2D, st,
                   VK_ACCESS_SHADER_READ_BIT) :
     s \in 0..MaxNumActiveBindings,
     st \in {VK_SHADER_STAGE_VERTEX_BIT, VK_SHADER_STAGE_FRAGMENT_BIT}}

\* objLayout.addBinding(binding)
ScratchAddBinding(binding) ==
  /\ objState = "none"
  /\ getBindingCount(objLayout, 0) + getBindingCount(objLayout, 1)
       + getBindingCount(objLayout, 2) <= MaxNumActiveBindings
  /\ objLayout' = addBinding(objLayout, binding)
  /\ UNCHANGED <<obj, objState, objLookup, devVars, othersObj>>

\* new DxvkBindingLayoutObjects(device, objLayout)
ScratchConstruct(failAt) ==
  /\ objState = "none"
  /\ LET st == BLO_Construct(1, objLayout, failAt)
     IN  /\ obj' = st
         /\ objState' \in
              {IF st.thrown THEN "thrown" ELSE "constructed"}
              \cup (IF BLO_ScratchOverflow(objLayout) THEN {"undefined"} ELSE {})
         /\ vkLive' = vkLive \cup SeqToSet(st.created)
         /\ vkLog' = vkLog \o [n \in 1..Len(st.created) |->
                                 [op |-> "create", handle |-> st.created[n]]]
  /\ UNCHANGED <<objLayout, objLookup, othersObj>>

ScratchNext ==
  \/ \E b \in ScratchBindings : ScratchAddBinding(b)
  \/ \E failAt \in 0..BLO_NumCalls(objLayout) : ScratchConstruct(failAt)

SpecScratch == ScratchInit /\ [][ScratchNext]_vars

(***************************************************************************)
(* C29: BindingLayoutObjects construction writes the shared per-set        *)
(* scratch arrays (bindingInfos, templateInfos, capacity                   *)
(* MaxNumActiveBindings) only at indices below MaxNumActiveBindings: for   *)
(* every BindingLayout reachable through addBinding/merge and passed to    *)
(* the constructor, no set's binding count exceeds MaxNumActiveBindings,   *)
(* or construction is rejected before any out-of-range write.              *)
(***************************************************************************)
C29_ScratchInBounds ==
  objState # "none" =>
    \/ \A i \in 0..(SetCount - 1) :
         /\ getBindingCount(obj.m_layout, i) <= MaxNumActiveBindings
         /\ \A j \in BLO_ScratchWrites(obj.m_layout, i) : j < MaxNumActiveBindings
    \/ obj.thrown /\ obj.calls = 0 /\ obj.m_mapping = << >>

(***************************************************************************)
(* SpecDirty: calls on one DxvkDescriptorState. lastClear holds the stages *)
(* of the last call if it was clearStages, else 0.                         *)
(***************************************************************************)
DirtyInit ==
  InfoIdle /\ LayoutIdle /\ BuildIdle /\ DevIdle /\ ObjIdle /\ SlotIdle /\ MgrIdle
  /\ LateIdle

\* the stage masks passed to the calls
DirtyStageMasks ==
  {VK_SHADER_STAGE_VERTEX_BIT, VK_SHADER_STAGE_GEOMETRY_BIT,
   VK_SHADER_STAGE_FRAGMENT_BIT, VK_SHADER_STAGE_COMPUTE_BIT,
   VK_SHADER_STAGE_VERTEX_BIT + VK_SHADER_STAGE_FRAGMENT_BIT,
   VK_SHADER_STAGE_ALL_GRAPHICS,
   VK_SHADER_STAGE_ALL_GRAPHICS + VK_SHADER_STAGE_COMPUTE_BIT}

DirtyBuffers(stages) ==
  /\ descState' = [dirtyBuffers(descState, stages) EXCEPT !.lastClear = 0]
  /\ UNCHANGED othersDirty

DirtyViews(stages) ==
  /\ descState' = [dirtyViews(descState, stages) EXCEPT !.lastClear = 0]
  /\ UNCHANGED othersDirty

DirtyStages(stages) ==
  /\ descState' = [dirtyStages(descState, stages) EXCEPT !.lastClear = 0]
  /\ UNCHANGED othersDirty

ClearStages(stages) ==
  /\ descState' = [clearStages(descState, stages) EXCEPT !.lastClear = stages]
  /\ UNCHANGED othersDirty

DirtyNext ==
  \E stages \in DirtyStageMasks :
    \/ DirtyBuffers(stages)
    \/ DirtyViews(stages)
    \/ DirtyStages(stages)
    \/ ClearStages(stages)

SpecDirty == DirtyInit /\ [][DirtyNext]_vars

(***************************************************************************)
(* C30: for DxvkDescriptorState after any sequence of dirtyBuffers,        *)
(* dirtyViews, dirtyStages and clearStages: hasDirtyGraphicsSets() is true *)
(* iff getDirtyGraphicsSets() is non-zero, and hasDirtyComputeSets() is    *)
(* true iff getDirtyComputeSets() is non-zero; dirty fragment views mark   *)
(* both the FsViews and FsBuffers sets, dirty fragment buffers mark only   *)
(* FsBuffers, and after clearStages(s) no set is reported dirty on account *)
(* of a stage in s.                                                        *)
(***************************************************************************)
\* the stages that are dirty in either mask
C30_Dirty == BitOr(descState.m_dirtyBuffers, descState.m_dirtyViews)

\* the sets a stage makes dirty when only that stage is dirty, in both masks
C30_SetsOfStage(stage) ==
  getDirtyGraphicsSets([m_dirtyBuffers |-> stage, m_dirtyViews |-> stage])

C30_GraphicsStages == {2^k : k \in 0..4}

C30_DirtySets ==
  /\ hasDirtyGraphicsSets(descState) <=> getDirtyGraphicsSets(descState) # 0
  /\ hasDirtyComputeSets(descState) <=> getDirtyComputeSets(descState) # 0
  /\ HasBit(descState.m_dirtyViews, VK_SHADER_STAGE_FRAGMENT_BIT) =>
       /\ HasBit(getDirtyGraphicsSets(descState), 2^FsViews)
       /\ HasBit(getDirtyGraphicsSets(descState), 2^FsBuffers)
  /\ (/\ HasBit(descState.m_dirtyBuffers, VK_SHADER_STAGE_FRAGMENT_BIT)
      /\ ~ HasBit(descState.m_dirtyViews, VK_SHADER_STAGE_FRAGMENT_BIT)) =>
       /\ HasBit(getDirtyGraphicsSets(descState), 2^FsBuffers)
       /\ ~ HasBit(getDirtyGraphicsSets(descState), 2^FsViews)
  /\ descState.lastClear # 0 =>
       /\ BitAnd(C30_Dirty, descState.lastClear) = 0
       /\ HasBit(descState.lastClear, VK_SHADER_STAGE_COMPUTE_BIT) =>
            getDirtyComputeSets(descState) = 0
       /\ \A set \in {FsViews, FsBuffers, VsAll} :
            HasBit(getDirtyGraphicsSets(descState), 2^set) =>
              \E stage \in C30_GraphicsStages :
                /\ HasBit(C30_Dirty, stage)
                /\ ~ HasBit(descState.lastClear, stage)
                /\ HasBit(C30_SetsOfStage(stage), 2^set)

\* the fragment stage was cleared while fragment views and vertex buffers
\* were dirty: only the vertex set is still reported
C30_Witness ==
  /\ descState.lastClear = VK_SHADER_STAGE_FRAGMENT_BIT
  /\ HasBit(descState.m_dirtyBuffers, VK_SHADER_STAGE_VERTEX_BIT)
  /\ getDirtyGraphicsSets(descState) = 2^VsAll
  /\ hasDirtyGraphicsSets(descState)
  /\ hasDirtyComputeSets(descState)

=============================================================================
